---------------------------- MODULE Spec2Model ----------------------------
(***************************************************************************)
(* The request execution engine of the ExnestAI configurable client        *)
(* (dist/client.services.js, compiled from exnestai/client.services.ts):   *)
(* input validation, the retry loop of executeRequest with its per-attempt *)
(* abort timer and backoff wait, the synthesized error envelope, and the   *)
(* configuration store.  One call is followed from the caller's invocation *)
(* to its settlement; every step is one run of the code between two        *)
(* suspension points (await / yield).                                      *)
(***************************************************************************)
EXTENDS Integers, Sequences, FiniteSets, TLC

(***************************************************************************)
(* Bounds of the model.                                                    *)
(***************************************************************************)
MaxRetries == 3        \* largest retry count a client is configured with
MaxMsgs    == 2        \* longest message list passed to chat / stream
MaxUpdates == 1        \* updateConfig calls followed in one behaviour
MaxLines   == 2        \* lines of a generated stream body
MaxRead    == 2        \* bytes of a short read of the stream body

(***************************************************************************)
(* JavaScript values.  A value is a record of one shape: its typeof tag,   *)
(* and the string or the number it holds.                                  *)
(***************************************************************************)
Str(s)    == [t |-> "string",    s |-> s,  n |-> 0]
Num(n)    == [t |-> "number",    s |-> "", n |-> n]
Undefined == [t |-> "undefined", s |-> "", n |-> 0]
Bool(b)   == [t |-> "boolean",   s |-> "", n |-> IF b THEN 1 ELSE 0]

\* ToBoolean
Truthy(v) ==
    CASE v.t = "string"    -> v.s # ""
      [] v.t = "number"    -> v.n # 0
      [] v.t = "boolean"   -> v.n # 0
      [] v.t = "undefined" -> FALSE
      [] OTHER             -> TRUE

\* a || b
OrElse(a, b) == IF Truthy(a) THEN a ELSE b

(***************************************************************************)
(* Errors raised by the platform and by the client.                        *)
(***************************************************************************)
Err(name, message) == [name |-> name, message |-> message]
Null         == Err("<null>", "")
AbortErr     == Err("AbortError", "This operation was aborted")
NetErr       == Err("TypeError", "fetch failed")
NetErrNoText == Err("Error", "")
ParseErr     == Err("SyntaxError", "Unexpected token < in JSON")
FetchErrors  == {NetErr, NetErrNoText}
BodyErrors   == {ParseErr, NetErr}

(***************************************************************************)
(* Results of a call: nothing yet, a value the promise resolves with (the  *)
(* server's body or the synthesized envelope), or an exception.            *)
(***************************************************************************)
NoBody       == [hasError |-> FALSE, text |-> ""]
ServerBodies == {[hasError |-> FALSE, text |-> "hello"],
                 [hasError |-> TRUE,  text |-> "bad request"]}
\* The JSON text null, which response.json() parses to null.
JsonNull     == [hasError |-> FALSE, text |-> "<null>"]
Statuses     == {200, 400, 500}

\* What the body of a response turns out to be when response.json() reads
\* it: JSON text (json() resolves with its value), text that is no JSON
\* (json() rejects with a SyntaxError), a connection that breaks (json()
\* rejects), or a body the server never completes (json() stays pending).
Wire(w, b)  == [wire |-> w, value |-> b]
NoResponse  == Wire("none", NoBody)
WireBodies  == {Wire("json", b) : b \in ServerBodies}
               \cup {Wire("garbage", NoBody), Wire("broken", NoBody), Wire("stalled", NoBody)}

NoResult        == [kind |-> "none", body |-> NoBody, message |-> "", code |-> "", type |-> ""]
Returned(b)     == [kind |-> "body", body |-> b, message |-> "", code |-> "", type |-> ""]
Thrown(m)       == [kind |-> "throw", body |-> NoBody, message |-> m, code |-> "", type |-> ""]
Envelope(m,c,t) == [kind |-> "envelope", body |-> [hasError |-> TRUE, text |-> m],
                    message |-> m, code |-> c, type |-> t]

(***************************************************************************)
(* createErrorResponse(error).  Reading error.name of null throws.         *)
(***************************************************************************)
\* A variant that gives every envelope the category client_error.
createErrorResponseOneType(error) ==
    IF error = Null
      THEN Thrown("Cannot read properties of null (reading 'name')")
      ELSE IF error.name = "AbortError"
             THEN Envelope("Request timeout", "timeout", "client_error")
             ELSE IF error.message # ""
                    THEN Envelope(error.message, "network_error", "client_error")
                    ELSE Envelope("Network error occurred", "network_error", "client_error")

createErrorResponse(error) ==
    IF error = Null
      THEN Thrown("Cannot read properties of null (reading 'name')")
      ELSE IF error.name = "AbortError"
             THEN Envelope("Request timeout", "timeout", "timeout_error")
             ELSE IF error.message # ""
                    THEN Envelope(error.message, "network_error", "client_error")
                    ELSE Envelope("Network error occurred", "network_error", "client_error")

(***************************************************************************)
(* validateInputs(model, messages): the message of the error it throws,    *)
(* or "" when it returns.  messages is [isArray, items].                   *)
(***************************************************************************)
Roles == {"system", "user", "assistant"}

\* A variant that accepts any content that is truthy.
MessageErrorAnyContent(m) ==
    IF ~Truthy(m.role) \/ ~(m.role.t = "string" /\ m.role.s \in Roles)
      THEN "Each message must have a valid role (system, user, or assistant)"
      ELSE IF ~Truthy(m.content)
             THEN "Each message must have non-empty content"
             ELSE ""

MessageError(m) ==
    IF ~Truthy(m.role) \/ ~(m.role.t = "string" /\ m.role.s \in Roles)
      THEN "Each message must have a valid role (system, user, or assistant)"
      ELSE IF ~Truthy(m.content) \/ m.content.t # "string"
             THEN "Each message must have non-empty content"
             ELSE ""

\* A variant that looks at the first message only.
FirstMessageErrorHeadOnly(items) ==
    IF items = <<>> THEN "" ELSE MessageError(Head(items))

RECURSIVE FirstMessageError(_)
FirstMessageError(items) ==
    IF items = <<>> THEN ""
    ELSE IF MessageError(Head(items)) # "" THEN MessageError(Head(items))
    ELSE FirstMessageError(Tail(items))

validateInputs(model, messages) ==
    IF ~Truthy(model) \/ model.t # "string"
      THEN "Model must be a non-empty string"
      ELSE IF ~messages.isArray \/ Len(messages.items) = 0
             THEN "Messages must be a non-empty array"
             ELSE FirstMessageError(messages.items)


(***************************************************************************)
(* Arguments of the call the caller makes.  An option is [set, v]: a key   *)
(* that is absent (or undefined) has set = FALSE.                          *)
(***************************************************************************)
Unset   == [set |-> FALSE, v |-> Undefined]
Given(v) == [set |-> TRUE, v |-> v]
OptValue(o) == IF o.set THEN o.v ELSE Undefined

NonStreamMethods == {"chat", "completion", "responses",
                     "getModels", "getModel", "getModelsByProvider"}
StreamMethods    == {"stream", "streamCompletion"}
Methods          == NonStreamMethods \cup StreamMethods
\* testConnection() and healthCheck(), which make a call of responses.
DiagnosticMethods == {"testConnection", "healthCheck"}

Msg(role, content) == [role |-> role, content |-> content]
GoodMsg   == Msg(Str("user"), Str("hi"))
MessageMenu == {GoodMsg,
                Msg(Str("system"), Str("be brief")),
                Msg(Str("invalid"), Str("hi")),
                Msg(Undefined, Str("hi")),
                Msg(Str("user"), Str("")),
                Msg(Str("assistant"), Num(5)),
                Msg(Str("assistant"), Str("ok"))}

RECURSIVE SeqsUpTo(_, _)
SeqsUpTo(S, k) ==
    IF k = 0 THEN {<<>>}
    ELSE LET shorter == SeqsUpTo(S, k - 1)
         IN  shorter \cup {Append(q, x) : q \in shorter, x \in S}

NotArray       == [isArray |-> FALSE, items |-> <<>>]
ArrayOf(items) == [isArray |-> TRUE, items |-> items]
ModelValues    == {Str("gpt-4.1-mini"), Str(""), Num(0), Num(5), Undefined}
PromptValues   == {Str("Hello"), Str(""), Num(7), Undefined}
MessagesValues == {NotArray} \cup {ArrayOf(q) : q \in SeqsUpTo(MessageMenu, MaxMsgs)}
OptTimeouts    == {Unset, Given(Num(0)), Given(Num(1000)), Given(Num(60000))}

(***************************************************************************)
(* The validation each public method runs before it builds its request:    *)
(* the message of the error thrown, or "" when validation passes.          *)
(***************************************************************************)
PromptError(model, prompt, what) ==
    IF ~Truthy(model) \/ model.t # "string"
      THEN "Model must be a non-empty string"
      ELSE IF ~Truthy(prompt) \/ prompt.t # "string"
             THEN what
             ELSE ""

ValidationError(a) ==
    CASE a.method \in {"chat", "stream"} ->
           validateInputs(a.model, a.messages)
      [] a.method \in {"completion", "streamCompletion"} ->
           PromptError(a.model, a.prompt, "Prompt must be a non-empty string")
      [] a.method = "responses" ->
           IF ~Truthy(a.prompt) \/ a.prompt.t # "string"
             THEN "Input must be a non-empty string"
             ELSE validateInputs(a.model, ArrayOf(<<Msg(Str("user"), a.prompt)>>))
      [] OTHER -> ""

(***************************************************************************)
(* testConnection() and healthCheck().                                     *)
(***************************************************************************)
\* The call testConnection makes: responses("openai:gpt-3.5-turbo",
\* "Hello", 5).
CallArgs(a) ==
    IF a.method \in DiagnosticMethods
      THEN [a EXCEPT !.method = "responses", !.model = Str("openai:gpt-3.5-turbo"),
                     !.prompt = Str("Hello"), !.maxTokens = Given(Num(5))]
      ELSE a

\* testResult.error is truthy; bodies are objects or null.
HasErrorField(r) == r.kind = "envelope" \/ (r.kind = "body" /\ r.body.hasError)

Health(status) == [NoResult EXCEPT !.kind = "health", !.code = status]

\* try { return await this.responses(...) } catch (error) { return
\* this.createErrorResponse(error) }, r being what responses settles with.
testConnection(r) ==
    IF r.kind = "throw" THEN createErrorResponse(Err("Error", r.message)) ELSE r

\* { status: testResult.error ? "unhealthy" : "healthy", timestamp, config }
\* of which the status is kept; reading a property of null throws.
healthCheck(testResult) ==
    IF testResult = Returned(JsonNull)
      THEN Thrown("Cannot read properties of null (reading 'error')")
      ELSE Health(IF HasErrorField(testResult) THEN "unhealthy" ELSE "healthy")

\* What the method the caller called settles with when the method of the
\* client it rests on settles with r.
MethodResult(a, r) ==
    CASE a.method = "testConnection" -> testConnection(r)
      [] a.method = "healthCheck"    -> healthCheck(testConnection(r))
      [] OTHER -> r

(***************************************************************************)
(* Configuration store.                                                    *)
(***************************************************************************)
DefaultTimeout    == 30000
DefaultRetries    == 3
DefaultRetryDelay == 1000

RetriesValues    == (-2 .. -1) \cup (0 .. MaxRetries)
RetryDelayValues == {0, DefaultRetryDelay}
TimeoutValues    == {0, DefaultTimeout}
ApiKeys          == {"test-api-key"}
BaseUrls         == {"https://api.exnest.app/v1"}

Configs == [apiKey : ApiKeys, baseUrl : BaseUrls, timeout : TimeoutValues,
            retries : RetriesValues, retryDelay : RetryDelayValues,
            debug : BOOLEAN]

DefaultConfig == [apiKey |-> "test-api-key", baseUrl |-> "https://api.exnest.app/v1",
                  timeout |-> DefaultTimeout, retries |-> DefaultRetries,
                  retryDelay |-> DefaultRetryDelay, debug |-> FALSE]

\* updateConfig(config): the arguments followed by the scenarios of the
\* retry loop (Partials) and by those of the configuration store
\* (ConfigPartials).
NoUpdate == [apiKey |-> Unset, baseUrl |-> Unset, timeout |-> Unset,
             retries |-> Unset, retryDelay |-> Unset, debug |-> Unset]

Partials ==
    {[NoUpdate EXCEPT !.retries = Given(Num(r))] : r \in {0, 1}}
    \cup {[NoUpdate EXCEPT !.retryDelay = Given(Num(0))],
          [NoUpdate EXCEPT !.timeout = Given(Num(0)), !.debug = Given(Bool(TRUE))]}

\* Each field alone with a falsy and with another value, a field given as
\* undefined, two fields, and no field.
ConfigPartials ==
    Partials
    \cup {NoUpdate,
          [NoUpdate EXCEPT !.debug = Given(Bool(FALSE))],
          [NoUpdate EXCEPT !.timeout = Given(Num(0))],
          [NoUpdate EXCEPT !.timeout = Given(Undefined)],
          [NoUpdate EXCEPT !.timeout = Given(Num(5000)), !.retryDelay = Given(Num(500))],
          [NoUpdate EXCEPT !.apiKey = Given(Str(""))],
          [NoUpdate EXCEPT !.apiKey = Given(Str("sk-1234"))],
          [NoUpdate EXCEPT !.retries = Given(Num(-1))],
          [NoUpdate EXCEPT !.baseUrl = Given(Str(""))],
          [NoUpdate EXCEPT !.baseUrl = Given(Str("http://localhost:3000/v1"))]}

\* config.f !== undefined
Defined(o) == OptValue(o).t # "undefined"

\* new ExnestAI(o): the fields are assigned from the argument, with the
\* defaults of the destructuring for the fields that are missing or
\* undefined (EXNEST_API_URL is not set), and the constructor throws when
\* the key is falsy.  ok: an object was built; fields: what was assigned.
KeyOnly == [NoUpdate EXCEPT !.apiKey = Given(Str("test-api-key"))]

ConstructorOptions ==
    {NoUpdate,
     [NoUpdate EXCEPT !.apiKey = Given(Str(""))],
     [NoUpdate EXCEPT !.apiKey = Given(Undefined), !.retries = Given(Num(1))],
     KeyOnly,
     [NoUpdate EXCEPT !.apiKey = Given(Str("abc"))],
     [KeyOnly EXCEPT !.retries = Given(Num(-1))],
     [KeyOnly EXCEPT !.retries = Given(Num(1)), !.timeout = Given(Num(-1)),
                     !.retryDelay = Given(Num(-1))],
     [KeyOnly EXCEPT !.timeout = Given(Num(0)), !.retries = Given(Num(0)),
                     !.retryDelay = Given(Undefined)],
     [KeyOnly EXCEPT !.debug = Given(Bool(TRUE)),
                     !.baseUrl = Given(Str("http://localhost:3000/v1"))]}

\* A variant that builds a client whatever the key.
constructUnchecked(o) ==
    [ok      |-> TRUE,
     message |-> "",
     fields  |->
       [apiKey     |-> OptValue(o.apiKey).s,
        baseUrl    |-> IF Defined(o.baseUrl) THEN o.baseUrl.v.s ELSE DefaultConfig.baseUrl,
        timeout    |-> IF Defined(o.timeout) THEN o.timeout.v.n ELSE DefaultTimeout,
        retries    |-> IF Defined(o.retries) THEN o.retries.v.n ELSE DefaultRetries,
        retryDelay |-> IF Defined(o.retryDelay) THEN o.retryDelay.v.n ELSE DefaultRetryDelay,
        debug      |-> IF Defined(o.debug) THEN o.debug.v.n # 0 ELSE FALSE]]

construct(o) ==
    [ok      |-> Truthy(OptValue(o.apiKey)),
     message |-> IF Truthy(OptValue(o.apiKey)) THEN "" ELSE "API key is required",
     fields  |->
       [apiKey     |-> OptValue(o.apiKey).s,
        baseUrl    |-> IF Defined(o.baseUrl) THEN o.baseUrl.v.s ELSE DefaultConfig.baseUrl,
        timeout    |-> IF Defined(o.timeout) THEN o.timeout.v.n ELSE DefaultTimeout,
        retries    |-> IF Defined(o.retries) THEN o.retries.v.n ELSE DefaultRetries,
        retryDelay |-> IF Defined(o.retryDelay) THEN o.retryDelay.v.n ELSE DefaultRetryDelay,
        debug      |-> IF Defined(o.debug) THEN o.debug.v.n # 0 ELSE FALSE]]

\* A variant that tests every field for truthiness.
updateConfigTruthy(c, config) ==
    [apiKey     |-> IF Truthy(OptValue(config.apiKey)) THEN config.apiKey.v.s ELSE c.apiKey,
     baseUrl    |-> IF Truthy(OptValue(config.baseUrl)) THEN config.baseUrl.v.s ELSE c.baseUrl,
     timeout    |-> IF Truthy(OptValue(config.timeout)) THEN config.timeout.v.n ELSE c.timeout,
     retries    |-> IF Truthy(OptValue(config.retries)) THEN config.retries.v.n ELSE c.retries,
     retryDelay |-> IF Truthy(OptValue(config.retryDelay)) THEN config.retryDelay.v.n
                    ELSE c.retryDelay,
     debug      |-> IF Truthy(OptValue(config.debug)) THEN config.debug.v.n # 0 ELSE c.debug]

\* A variant that assigns the key whenever the argument holds one.
updateConfigAnyKey(c, config) ==
    [apiKey     |-> IF Defined(config.apiKey) THEN config.apiKey.v.s ELSE c.apiKey,
     baseUrl    |-> IF Truthy(OptValue(config.baseUrl)) THEN config.baseUrl.v.s ELSE c.baseUrl,
     timeout    |-> IF Defined(config.timeout) THEN config.timeout.v.n ELSE c.timeout,
     retries    |-> IF Defined(config.retries) THEN config.retries.v.n ELSE c.retries,
     retryDelay |-> IF Defined(config.retryDelay) THEN config.retryDelay.v.n ELSE c.retryDelay,
     debug      |-> IF Defined(config.debug) THEN config.debug.v.n # 0 ELSE c.debug]

\* A variant that sets the fields the argument leaves out to the
\* constructor's defaults.
updateConfigResetting(c, config) ==
    [apiKey     |-> IF Truthy(OptValue(config.apiKey)) THEN config.apiKey.v.s ELSE c.apiKey,
     baseUrl    |-> IF Truthy(OptValue(config.baseUrl)) THEN config.baseUrl.v.s ELSE c.baseUrl,
     timeout    |-> IF Defined(config.timeout) THEN config.timeout.v.n ELSE DefaultTimeout,
     retries    |-> IF Defined(config.retries) THEN config.retries.v.n ELSE DefaultRetries,
     retryDelay |-> IF Defined(config.retryDelay) THEN config.retryDelay.v.n
                    ELSE DefaultRetryDelay,
     debug      |-> IF Defined(config.debug) THEN config.debug.v.n # 0 ELSE FALSE]

updateConfig(c, config) ==
    [apiKey     |-> IF Truthy(OptValue(config.apiKey)) THEN config.apiKey.v.s ELSE c.apiKey,
     baseUrl    |-> IF Truthy(OptValue(config.baseUrl)) THEN config.baseUrl.v.s ELSE c.baseUrl,
     timeout    |-> IF Defined(config.timeout) THEN config.timeout.v.n ELSE c.timeout,
     retries    |-> IF Defined(config.retries) THEN config.retries.v.n ELSE c.retries,
     retryDelay |-> IF Defined(config.retryDelay) THEN config.retryDelay.v.n ELSE c.retryDelay,
     debug      |-> IF Defined(config.debug) THEN config.debug.v.n # 0 ELSE c.debug]

\* A variant that takes the smaller of the option and the client's timeout.
RequestTimeoutSmaller(a, c) ==
    IF a.method = "responses" \/ ~a.timeout.set
      THEN c.timeout
      ELSE IF a.timeout.v.n < c.timeout THEN a.timeout.v.n ELSE c.timeout

\* requestTimeout = options.timeout || this.timeout; responses() passes
\* chat() an options object holding maxTokens alone.
RequestTimeout(a, c) ==
    IF a.method = "responses"
      THEN c.timeout
      ELSE OrElse(OptValue(a.timeout), Num(c.timeout)).n

(***************************************************************************)
(* The request a method builds and what fetch is called with.  A field of *)
(* the body that is absent is Unset; JSON.stringify writes the others.    *)
(***************************************************************************)
DefaultMaxTokens == 200

PostMethods == {"chat", "completion", "responses"} \cup StreamMethods

OptionValues == {Unset, Given(Undefined), Given(Num(0)), Given(Num(1))}

\* The options object the method body sees: responses(model, input,
\* maxTokens = 200) calls chat with { maxTokens } alone.
OptionsOf(a) ==
    IF a.method = "responses"
      THEN [temperature |-> Unset, timeout |-> Unset,
            maxTokens |-> IF Defined(a.maxTokens) THEN a.maxTokens
                          ELSE Given(Num(DefaultMaxTokens))]
      ELSE [temperature |-> a.temperature, timeout |-> a.timeout,
            maxTokens |-> a.maxTokens]

\* A variant that includes an option when it is truthy.
IncludedWhenTruthy(o) == IF Truthy(OptValue(o)) THEN Given(OptValue(o)) ELSE Unset

\* if (options.f !== undefined) requestBody.f = options.f
Included(o) == IF Defined(o) THEN Given(OptValue(o)) ELSE Unset

NoRequestBody == [present |-> FALSE, model |-> Undefined, messages |-> NotArray,
                  prompt |-> Unset, api_key |-> "", stream |-> FALSE,
                  temperature |-> Unset, max_tokens |-> Unset, timeout |-> Unset]

\* The messages of the body: responses(model, input) passes chat the
\* single message { role: "user", content: input }; the completion methods
\* send a prompt and no messages.
MessagesOf(a) ==
    CASE a.method \in {"chat", "stream"} -> a.messages
      [] a.method = "responses" -> ArrayOf(<<Msg(Str("user"), a.prompt)>>)
      [] OTHER -> NotArray

\* The body built by method a.method on a client with fields c; the
\* model listing methods pass executeRequest a null body.
RequestBody(a, c) ==
    IF a.method \in PostMethods
      THEN [present     |-> TRUE,
            model       |-> a.model,
            messages    |-> MessagesOf(a),
            prompt      |-> IF a.method \in {"completion", "streamCompletion"}
                              THEN Given(a.prompt) ELSE Unset,
            api_key     |-> c.apiKey,
            stream      |-> a.method \in StreamMethods,
            temperature |-> Included(OptionsOf(a).temperature),
            max_tokens  |-> Included(OptionsOf(a).maxTokens),
            timeout     |-> Included(OptionsOf(a).timeout)]
      ELSE NoRequestBody

\* fetch(`${this.baseUrl}${endpoint}`, { method, headers, body }) on a
\* client with fields c: the Authorization header is Bearer c.apiKey.
Request(c, b) ==
    [method |-> IF b.present THEN "POST" ELSE "GET", baseUrl |-> c.baseUrl,
     authorization |-> c.apiKey, body |-> b]

VARIABLES
    cfg,         \* the client's fields: apiKey, baseUrl, timeout, retries, retryDelay, debug
    args,        \* what the caller does: method, model, messages, prompt and
                 \* options of its call, and the arguments of its updateConfig calls
    requestBody, \* the request body the method built
    entryCfg,    \* the client's fields when the method was entered
    pc,          \* where the call is suspended
    attempt,     \* executeRequest's loop variable
    lastError,   \* executeRequest's lastError
    reqTimeout,  \* the timeout parameter of executeRequest / executeStreamRequest
    timers,      \* timers[i]: state of the abort timer armed by the i-th exchange
    requests,    \* requests[i]: what fetch was called with for the i-th exchange
    trace,       \* exchanges issued and backoff waits started, in order
    respStatus,  \* HTTP status of the response being read (0: none)
    respBody,    \* what its body turns out to be
    result,      \* what the call settled with
    updates,     \* updateConfig calls the caller still makes
    cfgTouched,  \* updateConfig ran after the call had started
    lastUpdate   \* the argument of the last updateConfig call

execVars == <<cfg, args, requestBody, entryCfg, pc, attempt, lastError, reqTimeout,
              timers, requests, trace,
              respStatus, respBody, result, updates, cfgTouched, lastUpdate>>

Exchanges == Len(timers)

\* No call has been made.
Untouched ==
    /\ attempt = 0
    /\ lastError = Null
    /\ reqTimeout = 0
    /\ timers = <<>>
    /\ requests = <<>>
    /\ requestBody = NoRequestBody
    /\ trace = <<>>
    /\ respStatus = 0
    /\ respBody = NoResponse
    /\ cfgTouched = FALSE
    /\ lastUpdate = NoUpdate

\* A client was built and no call has been made on it.
StartState ==
    /\ pc = "idle"
    /\ result = NoResult
    /\ Untouched

(***************************************************************************)
(* getConfig and getApiKeyInfo.                                            *)
(***************************************************************************)
\* The characters of the credentials followed.
Chars(key) ==
    CASE key = "test-api-key" -> <<"t","e","s","t","-","a","p","i","-","k","e","y">>
      [] key = "sk-1234"      -> <<"s","k","-","1","2","3","4">>
      [] key = "abc"          -> <<"a","b","c">>
      [] OTHER                -> <<>>

\* key.slice(-4)
LastFour(q) == SubSeq(q, IF Len(q) > 4 THEN Len(q) - 3 ELSE 1, Len(q))

\* A variant that shows the first four characters.
getApiKeyInfoFirstFour(c) ==
    IF c.apiKey = "" THEN <<"No API key set">>
    ELSE <<"*", "*", "*", "*">> \o SubSeq(Chars(c.apiKey), 1, 4)

getApiKeyInfo(c) ==
    IF c.apiKey = "" THEN <<"No API key set">>
    ELSE <<"*", "*", "*", "*">> \o LastFour(Chars(c.apiKey))

\* A variant that reports the timeout of the request in flight.
getConfigOfRequest(c) ==
    [baseUrl |-> c.baseUrl, timeout |-> IF reqTimeout # 0 THEN reqTimeout ELSE c.timeout,
     retries |-> c.retries, retryDelay |-> c.retryDelay, debug |-> c.debug,
     apiKey |-> getApiKeyInfo(c)]

getConfig(c) ==
    [baseUrl |-> c.baseUrl, timeout |-> c.timeout, retries |-> c.retries,
     retryDelay |-> c.retryDelay, debug |-> c.debug, apiKey |-> getApiKeyInfo(c)]


(***************************************************************************)
(* Text of a stream body.  A body is a sequence of bytes; every character  *)
(* but one is a single byte, and the bytes C3 A9 encode the character e9.  *)
(* Text is a sequence of characters.                                       *)
(***************************************************************************)
LF       == "\n"
Marker   == <<"d", "a", "t", "a", ":", " ">>
Sentinel == <<"[", "D", "O", "N", "E", "]">>

Min(a, b) == IF a < b THEN a ELSE b

\* s.startsWith(prefix)
StartsWith(s, prefix) ==
    /\ Len(s) >= Len(prefix)
    /\ SubSeq(s, 1, Len(prefix)) = prefix

\* s.slice(k)
Slice(s, k) == SubSeq(s, k + 1, Len(s))

\* s.split("\n"): the pieces between line feeds, the last one included.
RECURSIVE SplitFrom(_, _, _)
SplitFrom(s, i, cur) ==
    IF i > Len(s) THEN <<cur>>
    ELSE IF s[i] = LF THEN <<cur>> \o SplitFrom(s, i + 1, <<>>)
    ELSE SplitFrom(s, i + 1, Append(cur, s[i]))
Split(s) == SplitFrom(s, 1, <<>>)

\* decoder.decode(value, {stream: true}): the characters of the bytes held
\* back by the last call followed by value; an incomplete sequence at the
\* end is held back for the next call.
RECURSIVE DecodeFrom(_, _)
DecodeFrom(bytes, i) ==
    IF i > Len(bytes) THEN [text |-> <<>>, held |-> <<>>]
    ELSE IF bytes[i] = "C3"
      THEN IF i = Len(bytes)
             THEN [text |-> <<>>, held |-> <<"C3">>]
             ELSE LET rest == DecodeFrom(bytes, i + 2)
                  IN  [text |-> <<IF bytes[i + 1] = "A9" THEN "e9" ELSE "fffd">> \o rest.text,
                       held |-> rest.held]
      ELSE LET rest == DecodeFrom(bytes, i + 1)
           IN  [text |-> <<bytes[i]>> \o rest.text, held |-> rest.held]
Decode(held, value) == DecodeFrom(held \o value, 1)

\* JSON.parse(text) for the texts a payload can hold: white space around a
\* value is dropped; a value is a number (digits, no leading zero) or a
\* string in double quotes.  [ok, value].
JsonSpace == {" ", "\r", "\t"}
Digits    == {"0", "1", "2", "3", "4", "5", "6", "7", "8", "9"}
DigitValue(c) == CHOOSE d \in 0 .. 9 : ToString(d) = c

RECURSIVE TrimLeft(_)
TrimLeft(s) == IF s # <<>> /\ Head(s) \in JsonSpace THEN TrimLeft(Tail(s)) ELSE s
RECURSIVE TrimRight(_)
TrimRight(s) ==
    IF s # <<>> /\ s[Len(s)] \in JsonSpace THEN TrimRight(SubSeq(s, 1, Len(s) - 1)) ELSE s

RECURSIVE NumberValue(_)
NumberValue(s) ==
    IF s = <<>> THEN 0 ELSE 10 * NumberValue(SubSeq(s, 1, Len(s) - 1)) + DigitValue(s[Len(s)])

RECURSIVE Joined(_)
Joined(s) == IF s = <<>> THEN "" ELSE Head(s) \o Joined(Tail(s))

ParseFailure == [ok |-> FALSE, value |-> Undefined]
JSONparse(text) ==
    LET s == TrimRight(TrimLeft(text))
    IN  IF s = <<>> THEN ParseFailure
        ELSE IF \A i \in 1 .. Len(s) : s[i] \in Digits
          THEN IF Len(s) > 1 /\ s[1] = "0" THEN ParseFailure
               ELSE [ok |-> TRUE, value |-> Num(NumberValue(s))]
        ELSE IF /\ Len(s) >= 2 /\ s[1] = "\"" /\ s[Len(s)] = "\""
                /\ \A i \in 2 .. Len(s) - 1 : s[i] \notin {"\"", "\\", "\r", "\t", LF}
          THEN [ok |-> TRUE, value |-> Str(Joined(SubSeq(s, 2, Len(s) - 1)))]
        ELSE ParseFailure

(***************************************************************************)
(* State of executeStreamRequest.                                          *)
(***************************************************************************)
VARIABLES
    body,        \* the bytes of the response body the server sends
    pos,         \* bytes of body handed out by reader.read() so far
    held,        \* bytes the decoder holds back
    buffer,      \* the text after the last line feed seen
    lines,       \* lines of the current read still to be looked at
    yielded,     \* chunks the sequence has yielded, in order
    reader       \* "none", "locked" or "released"

streamVars == <<body, pos, held, buffer, lines, yielded, reader>>
vars       == <<execVars, streamVars>>

StreamStart ==
    /\ pos = 0
    /\ held = <<>>
    /\ buffer = <<>>
    /\ lines = <<>>
    /\ yielded = <<>>
    /\ reader = "none"

\* How a stream settles.
Ended      == [NoResult EXCEPT !.kind = "end"]
Dropped    == [NoResult EXCEPT !.kind = "returned"]
\* catch (error) { throw new Error(`Streaming failed: ${error.message}`) }
\* A variant that throws the failure's message as it is.
StreamFailureUnwrapped(message) == Thrown(message)
StreamFailure(message) == Thrown("Streaming failed: " \o message)

(***************************************************************************)
(* executeRequest.                                                         *)
(***************************************************************************)
Event(ev, a, n) == [ev |-> ev, attempt |-> a, n |-> n]

\* A variant that gives up retrying when the debug flag is set.
LoopHeadOfQuiet(c, a, err, timeout, tm, b) ==
    /\ attempt' = a
    /\ IF a <= c.retries /\ (c.debug => a = 0)
         THEN /\ timers' = Append(tm, "pending")
              /\ requests' = Append(requests, Request(c, b))
              /\ trace' = Append(trace, Event("exchange", a, timeout))
              /\ pc' = "fetching"
              /\ result' = result
         ELSE /\ pc' = "done"
              /\ result' = MethodResult(args, createErrorResponse(err))
              /\ timers' = tm
              /\ requests' = requests
              /\ trace' = trace

\* The head of "for (attempt = 0; attempt <= this.retries; attempt++)" with
\* loop variable a and lastError err, run on a client with fields c up to
\* the next await: either the body arms the abort timer and issues fetch
\* with body b, or the loop is left and createErrorResponse(lastError) is
\* returned.  tm is the state of the timers armed so far.  The lines
\* written to the console when c.debug holds are no part of the state.
LoopHeadOf(c, a, err, timeout, tm, b) ==
    /\ attempt' = a
    /\ IF a <= c.retries
         THEN /\ timers' = Append(tm, "pending")
              /\ requests' = Append(requests, Request(c, b))
              /\ trace' = Append(trace, Event("exchange", a, timeout))
              /\ pc' = "fetching"
              /\ result' = result
         ELSE /\ pc' = "done"
              /\ result' = MethodResult(args, createErrorResponse(err))
              /\ timers' = tm
              /\ requests' = requests
              /\ trace' = trace

LoopHead(a, err, timeout, tm) == LoopHeadOf(cfg, a, err, timeout, tm, requestBody)

\* The backoff delay before the attempt that follows attempt a.
BackoffDelayOf(c, a) == c.retryDelay * (a + 1)

BackoffDelay(a) == BackoffDelayOf(cfg, a)

\* A variant that keeps the failure of the first attempt that failed.
CatchOfFirstFailure(c, error, tm) ==
    /\ lastError' = (IF lastError = Null THEN error ELSE lastError)
    /\ respStatus' = 0
    /\ respBody' = NoResponse
    /\ IF attempt < c.retries
         THEN /\ pc' = "waiting"
              /\ trace' = Append(trace, Event("wait", attempt, BackoffDelayOf(c, attempt)))
              /\ timers' = tm
              /\ requests' = requests
              /\ UNCHANGED <<attempt, result>>
         ELSE LoopHeadOf(c, attempt + 1, IF lastError = Null THEN error ELSE lastError,
                         reqTimeout, tm, requestBody)

\* The catch block, entered with the failure of the current attempt; the
\* response of the try block is gone.
CatchOf(c, error, tm) ==
    /\ lastError' = error
    /\ respStatus' = 0
    /\ respBody' = NoResponse
    /\ IF attempt < c.retries
         THEN /\ pc' = "waiting"
              /\ trace' = Append(trace, Event("wait", attempt, BackoffDelayOf(c, attempt)))
              /\ timers' = tm
              /\ requests' = requests
              /\ UNCHANGED <<attempt, result>>
         ELSE LoopHeadOf(c, attempt + 1, error, reqTimeout, tm, requestBody)

Catch(error, tm) == CatchOf(cfg, error, tm)

\* A variant that treats a status of 400 and above as a failed attempt.
OnBodyRetryOnStatus(st, b) ==
    IF st >= 400
      THEN Catch(Err("Error", "HTTP error"), timers)
      ELSE /\ result' = Returned(b)
           /\ pc' = "done"
           /\ UNCHANGED <<attempt, lastError, timers, requests, trace, respStatus, respBody>>

\* A variant that returns the envelope of an earlier failure once one happened.
OnBodyStickyError(st, b) ==
    /\ result' = IF lastError = Null THEN Returned(b) ELSE createErrorResponse(lastError)
    /\ pc' = "done"
    /\ UNCHANGED <<attempt, lastError, timers, requests, trace, respStatus, respBody>>

\* "const result = await response.json(); ... return result": the parsed
\* body b of a response with HTTP status st is returned.
OnBody(st, b) ==
    /\ result' = MethodResult(args, Returned(b))
    /\ pc' = "done"
    /\ UNCHANGED <<attempt, lastError, timers, requests, trace, respStatus, respBody>>

\* A variant that keeps the timeout of the call in the client.
CallOfStoringTimeout(c) ==
    /\ pc = "idle"
    /\ args.method \in NonStreamMethods \cup DiagnosticMethods
    /\ IF ValidationError(CallArgs(args)) # ""
         THEN /\ pc' = "done"
              /\ result' = MethodResult(args, Thrown(ValidationError(CallArgs(args))))
              /\ UNCHANGED <<cfg, requestBody, attempt, reqTimeout, timers, requests, trace>>
         ELSE /\ requestBody' = RequestBody(CallArgs(args), c)
              /\ reqTimeout' = RequestTimeout(CallArgs(args), c)
              /\ cfg' = [cfg EXCEPT !.timeout = RequestTimeout(CallArgs(args), c)]
              /\ LoopHeadOf(c, 0, Null, RequestTimeout(CallArgs(args), c), timers,
                            RequestBody(CallArgs(args), c))
    /\ entryCfg' = cfg
    /\ UNCHANGED <<args, lastError, respStatus, respBody, updates, cfgTouched, lastUpdate>>
    /\ UNCHANGED streamVars

\* The caller invokes a non-streaming method on a client with fields c:
\* validation, the request body and timeout, and executeRequest up to its
\* first await; testConnection and healthCheck invoke responses.
CallOf(c) ==
    /\ pc = "idle"
    /\ args.method \in NonStreamMethods \cup DiagnosticMethods
    /\ IF ValidationError(CallArgs(args)) # ""
         THEN /\ pc' = "done"
              /\ result' = MethodResult(args, Thrown(ValidationError(CallArgs(args))))
              /\ UNCHANGED <<requestBody, attempt, reqTimeout, timers, requests, trace>>
         ELSE /\ requestBody' = RequestBody(CallArgs(args), c)
              /\ reqTimeout' = RequestTimeout(CallArgs(args), c)
              /\ LoopHeadOf(c, 0, Null, RequestTimeout(CallArgs(args), c), timers,
                            RequestBody(CallArgs(args), c))
    /\ entryCfg' = cfg
    /\ UNCHANGED <<cfg, args, lastError, respStatus, respBody, updates, cfgTouched, lastUpdate>>
    /\ UNCHANGED streamVars

Call == CallOf(cfg)

\* The bodies servers answer with; a server that answers the canned
\* request of testConnection with the JSON text null is followed as well.
WireBodiesFor(a) ==
    IF a.method \in DiagnosticMethods
      THEN WireBodies \cup {Wire("json", JsonNull)}
      ELSE WireBodies

\* The server answers the request in flight; a silent server leaves the
\* first request of the call unanswered.
Answered == ~(args.silent /\ attempt = 0)

\* fetch resolves with a response (its headers): clearTimeout, then
\* response.json() is awaited.
FetchResolve ==
    /\ pc = "fetching"
    /\ Answered
    /\ \E st \in Statuses : respStatus' = st
    /\ \E w \in WireBodiesFor(args) : respBody' = w
    /\ timers' = [timers EXCEPT ![Len(timers)] = "cleared"]
    /\ pc' = "reading"
    /\ UNCHANGED <<cfg, args, requestBody, entryCfg, attempt, lastError, reqTimeout,
                   requests, trace, result, updates, cfgTouched, lastUpdate>>
    /\ UNCHANGED streamVars

\* fetch rejects with a connection failure.
FetchRejectOf(c) ==
    /\ pc = "fetching"
    /\ Answered
    /\ \E e \in FetchErrors : CatchOf(c, e, timers)
    /\ UNCHANGED <<cfg, args, requestBody, entryCfg, reqTimeout, updates, cfgTouched,
                   lastUpdate>>
    /\ UNCHANGED streamVars

FetchReject == FetchRejectOf(cfg)

\* response.json() resolves with the parsed body, which is returned.
JsonResolve ==
    /\ pc = "reading"
    /\ respBody.wire = "json"
    /\ OnBody(respStatus, respBody.value)
    /\ UNCHANGED <<cfg, args, requestBody, entryCfg, reqTimeout, updates, cfgTouched,
                   lastUpdate>>
    /\ UNCHANGED streamVars

\* response.json() rejects: the body is no JSON, or the connection broke.
JsonRejectOf(c) ==
    /\ pc = "reading"
    /\ respBody.wire \in {"garbage", "broken"}
    /\ CatchOf(c, IF respBody.wire = "garbage" THEN ParseErr ELSE NetErr, timers)
    /\ UNCHANGED <<cfg, args, requestBody, entryCfg, reqTimeout, updates, cfgTouched,
                   lastUpdate>>
    /\ UNCHANGED streamVars

JsonReject == JsonRejectOf(cfg)

\* A variant with one abort controller for the whole call: whichever timer
\* fires aborts the request in flight.
TimerFireOfSharedSignal(c) ==
    /\ \E i \in 1 .. Len(timers) :
         /\ timers[i] = "pending"
         /\ CASE pc = "fetching" ->
                   CatchOf(c, AbortErr, [timers EXCEPT ![i] = "fired"])
              [] pc = "s_fetching" ->
                   /\ timers' = [timers EXCEPT ![i] = "fired"]
                   /\ requests' = requests
                   /\ result' = StreamFailure(AbortErr.message)
                   /\ pc' = "done"
                   /\ UNCHANGED <<attempt, lastError, trace, respStatus, respBody>>
              [] OTHER ->
                   /\ timers' = [timers EXCEPT ![i] = "fired"]
                   /\ requests' = requests
                   /\ UNCHANGED <<pc, attempt, lastError, trace, result,
                                  respStatus, respBody>>
    /\ UNCHANGED <<cfg, args, requestBody, entryCfg, reqTimeout, updates, cfgTouched,
                   lastUpdate>>
    /\ UNCHANGED streamVars

\* The i-th abort timer fires: controller.abort().  The fetch it was armed
\* for rejects with an AbortError if it is still pending; a controller
\* whose fetch has settled aborts nothing.
TimerFireOf(c) ==
    /\ \E i \in 1 .. Len(timers) :
         /\ timers[i] = "pending"
         /\ CASE pc = "fetching" /\ i = Len(timers) ->
                   CatchOf(c, AbortErr, [timers EXCEPT ![i] = "fired"])
              [] pc = "s_fetching" /\ i = Len(timers) ->
                   /\ timers' = [timers EXCEPT ![i] = "fired"]
                   /\ requests' = requests
                   /\ result' = StreamFailure(AbortErr.message)
                   /\ pc' = "done"
                   /\ UNCHANGED <<attempt, lastError, trace, respStatus, respBody>>
              [] OTHER ->
                   /\ timers' = [timers EXCEPT ![i] = "fired"]
                   /\ requests' = requests
                   /\ UNCHANGED <<pc, attempt, lastError, trace, result,
                                  respStatus, respBody>>
    /\ UNCHANGED <<cfg, args, requestBody, entryCfg, reqTimeout, updates, cfgTouched,
                   lastUpdate>>
    /\ UNCHANGED streamVars

TimerFire == TimerFireOf(cfg)

\* The backoff delay elapses: attempt++ and the loop head.
DelayDoneOf(c) ==
    /\ pc = "waiting"
    /\ LoopHeadOf(c, attempt + 1, lastError, reqTimeout, timers, requestBody)
    /\ UNCHANGED <<cfg, args, requestBody, entryCfg, lastError, reqTimeout, respStatus,
                   respBody, updates, cfgTouched, lastUpdate>>
    /\ UNCHANGED streamVars

DelayDone == DelayDoneOf(cfg)

(***************************************************************************)
(* executeStreamRequest.                                                   *)
(***************************************************************************)
\* A variant that ends the sequence at an event that is no JSON.
RECURSIVE ProcessLinesStopAtMalformed(_)
ProcessLinesStopAtMalformed(ls) ==
    IF ls = <<>> THEN [kind |-> "more", value |-> Undefined, rest |-> <<>>]
    ELSE LET line == Head(ls)
             data == Slice(line, 6)
         IN  IF StartsWith(line, Marker)
               THEN IF data = Sentinel \/ ~JSONparse(data).ok
                      THEN [kind |-> "return", value |-> Undefined, rest |-> <<>>]
                      ELSE [kind |-> "yield", value |-> JSONparse(data).value,
                            rest |-> Tail(ls)]
               ELSE ProcessLinesStopAtMalformed(Tail(ls))

\* A variant that passes over the sentinel as over a line that is no event.
RECURSIVE ProcessLinesPastSentinel(_)
ProcessLinesPastSentinel(ls) ==
    IF ls = <<>> THEN [kind |-> "more", value |-> Undefined, rest |-> <<>>]
    ELSE LET line == Head(ls)
             data == Slice(line, 6)
         IN  IF StartsWith(line, Marker)
               THEN IF data = Sentinel
                      THEN ProcessLinesPastSentinel(Tail(ls))
                      ELSE IF JSONparse(data).ok
                             THEN [kind |-> "yield", value |-> JSONparse(data).value,
                                   rest |-> Tail(ls)]
                             ELSE ProcessLinesPastSentinel(Tail(ls))
               ELSE ProcessLinesPastSentinel(Tail(ls))

\* The lines of one read are looked at in order up to the next point where
\* the generator stops running: a yield, the return at the sentinel, or the
\* end of the lines (the next read is awaited).
RECURSIVE ProcessLines(_)
ProcessLines(ls) ==
    IF ls = <<>> THEN [kind |-> "more", value |-> Undefined, rest |-> <<>>]
    ELSE LET line == Head(ls)
             data == Slice(line, 6)
         IN  IF StartsWith(line, Marker)
               THEN IF data = Sentinel
                      THEN [kind |-> "return", value |-> Undefined, rest |-> <<>>]
                      ELSE IF JSONparse(data).ok
                             THEN [kind |-> "yield", value |-> JSONparse(data).value,
                                   rest |-> Tail(ls)]
                             ELSE ProcessLines(Tail(ls))
               ELSE ProcessLines(Tail(ls))

\* The for-of loop over ls, run up to that point.
RunLines(ls) ==
    LET r == ProcessLines(ls)
    IN  CASE r.kind = "yield" ->
               /\ yielded' = Append(yielded, r.value)
               /\ lines' = r.rest
               /\ pc' = "s_yield"
               /\ UNCHANGED <<reader, result>>
          [] r.kind = "return" ->
               /\ lines' = <<>>
               /\ reader' = "released"
               /\ result' = Ended
               /\ pc' = "done"
               /\ UNCHANGED yielded
          [] OTHER ->
               /\ lines' = <<>>
               /\ pc' = "s_read"
               /\ UNCHANGED <<yielded, reader, result>>

\* The consumer asks for the first chunk of stream / streamCompletion:
\* on a client with fields c: validation, the request body and timeout,
\* and executeStreamRequest up to fetch.
StreamCallOf(c) ==
    /\ pc = "idle"
    /\ args.method \in StreamMethods
    /\ IF ValidationError(args) # ""
         THEN /\ pc' = "done"
              /\ result' = Thrown(ValidationError(args))
              /\ UNCHANGED <<requestBody, reqTimeout, timers, requests, trace>>
         ELSE /\ requestBody' = RequestBody(args, c)
              /\ reqTimeout' = RequestTimeout(args, c)
              /\ timers' = Append(timers, "pending")
              /\ requests' = Append(requests, Request(c, RequestBody(args, c)))
              /\ trace' = Append(trace, Event("exchange", 0, RequestTimeout(args, c)))
              /\ pc' = "s_fetching"
              /\ result' = result
    /\ entryCfg' = cfg
    /\ UNCHANGED <<cfg, args, attempt, lastError, respStatus, respBody, updates,
                   cfgTouched, lastUpdate>>
    /\ UNCHANGED streamVars

StreamCall == StreamCallOf(cfg)

\* A variant that opens the exchange again while attempts are left.
StreamFetchRejectRetry ==
    /\ pc = "s_fetching"
    /\ IF attempt < cfg.retries
         THEN /\ attempt' = attempt + 1
              /\ timers' = Append(timers, "pending")
              /\ requests' = Append(requests, Request(cfg, requestBody))
              /\ trace' = Append(trace, Event("exchange", attempt + 1, reqTimeout))
              /\ UNCHANGED <<pc, result>>
         ELSE /\ \E e \in FetchErrors : result' = StreamFailure(e.message)
              /\ pc' = "done"
              /\ UNCHANGED <<attempt, timers, requests, trace>>
    /\ UNCHANGED <<cfg, args, requestBody, entryCfg, lastError, reqTimeout, respStatus, respBody,
                   updates, cfgTouched, lastUpdate>>
    /\ UNCHANGED streamVars

\* fetch rejects.
StreamFetchReject ==
    /\ pc = "s_fetching"
    /\ Answered
    /\ \E e \in FetchErrors : result' = StreamFailure(e.message)
    /\ pc' = "done"
    /\ UNCHANGED <<cfg, args, requestBody, entryCfg, attempt, lastError, reqTimeout, timers, requests, trace,
                   respStatus, respBody, updates, cfgTouched, lastUpdate>>
    /\ UNCHANGED streamVars

\* The bodies of a response that is no event stream: JSON with a message,
\* JSON without one, no JSON, a body that breaks off, a body that stalls.
StreamErrorBodies ==
    {Wire("json", [hasError |-> TRUE, text |-> "bad request"]),
     Wire("json", [hasError |-> TRUE, text |-> ""]),
     Wire("garbage", NoBody), Wire("broken", NoBody), Wire("stalled", NoBody)}

\* fetch resolves: clearTimeout, then the response is looked at.
\* kind "nobody": response.body is null.  kind "json": the content type is
\* not text/event-stream, response.json() is awaited.  kind "sse": the
\* reader is taken and the first read awaited.
StreamFetchResolve ==
    /\ pc = "s_fetching"
    /\ Answered
    /\ timers' = [timers EXCEPT ![Len(timers)] = "cleared"]
    /\ requests' = requests
    /\ \E kind \in {"nobody", "json", "sse"} :
         CASE kind = "nobody" ->
                /\ result' = StreamFailure("Response body is null")
                /\ pc' = "done"
                /\ UNCHANGED <<reader, respBody>>
           [] kind = "json" ->
                /\ pc' = "s_json"
                /\ \E b \in StreamErrorBodies : respBody' = b
                /\ UNCHANGED <<result, reader>>
           [] OTHER ->
                /\ pc' = "s_read"
                /\ reader' = "locked"
                /\ UNCHANGED <<result, respBody>>
    /\ UNCHANGED <<cfg, args, requestBody, entryCfg, attempt, lastError, reqTimeout, trace, respStatus,
                   updates, cfgTouched, lastUpdate>>
    /\ UNCHANGED <<body, pos, held, buffer, lines, yielded>>

\* A variant without the fixed text for a body that has no message.
StreamJsonSettleNoFallback ==
    /\ pc = "s_json"
    /\ respBody.wire \in {"json", "garbage", "broken"}
    /\ result' = StreamFailure(
         CASE respBody.wire = "garbage" -> ParseErr.message
           [] respBody.wire = "broken"  -> NetErr.message
           [] OTHER -> IF respBody.value.text = "" THEN "undefined"
                       ELSE respBody.value.text)
    /\ pc' = "done"
    /\ UNCHANGED <<cfg, args, requestBody, entryCfg, attempt, lastError, reqTimeout, timers, requests, trace,
                   respStatus, respBody, updates, cfgTouched, lastUpdate>>
    /\ UNCHANGED streamVars

\* response.json() of a response that is no event stream settles: the
\* sequence fails with result.message, or with the fixed text when the
\* body has none, or with the failure of json().
StreamJsonSettle ==
    /\ pc = "s_json"
    /\ respBody.wire \in {"json", "garbage", "broken"}
    /\ result' = StreamFailure(
         CASE respBody.wire = "garbage" -> ParseErr.message
           [] respBody.wire = "broken"  -> NetErr.message
           [] OTHER -> OrElse(Str(respBody.value.text), Str("Streaming request failed")).s)
    /\ pc' = "done"
    /\ UNCHANGED <<cfg, args, requestBody, entryCfg, attempt, lastError, reqTimeout, timers, requests, trace,
                   respStatus, respBody, updates, cfgTouched, lastUpdate>>
    /\ UNCHANGED streamVars

\* The sizes of a read when n bytes of the body are left: a few bytes, or
\* all that is left.
ReadSizes(n) == (1 .. Min(MaxRead, n)) \cup (IF n > 0 THEN {n} ELSE {})

\* A variant that splits each read on its own, without the text left over
\* from the read before.
StreamReadNoCarry ==
    /\ pc = "s_read"
    /\ \E k \in ReadSizes(Len(body) - pos) :
         LET d     == Decode(held, SubSeq(body, pos + 1, pos + k))
             parts == Split(d.text)
         IN  /\ pos' = pos + k
             /\ held' = d.held
             /\ buffer' = parts[Len(parts)]
             /\ RunLines(SubSeq(parts, 1, Len(parts) - 1))
    /\ UNCHANGED <<cfg, args, requestBody, entryCfg, attempt, lastError, reqTimeout, timers, requests, trace,
                   respStatus, respBody, updates, cfgTouched, lastUpdate>>
    /\ UNCHANGED body

\* reader.read() resolves with the next k bytes of the body.
StreamRead ==
    /\ pc = "s_read"
    /\ \E k \in ReadSizes(Len(body) - pos) :
         LET d     == Decode(held, SubSeq(body, pos + 1, pos + k))
             parts == Split(buffer \o d.text)
         IN  /\ pos' = pos + k
             /\ held' = d.held
             /\ buffer' = parts[Len(parts)]
             /\ RunLines(SubSeq(parts, 1, Len(parts) - 1))
    /\ UNCHANGED <<cfg, args, requestBody, entryCfg, attempt, lastError, reqTimeout, timers, requests, trace,
                   respStatus, respBody, updates, cfgTouched, lastUpdate>>
    /\ UNCHANGED body

\* The consumer asks for the next chunk after a yield inside the loop.
StreamResume ==
    /\ pc = "s_yield"
    /\ RunLines(lines)
    /\ UNCHANGED <<cfg, args, requestBody, entryCfg, attempt, lastError, reqTimeout, timers, requests, trace,
                   respStatus, respBody, updates, cfgTouched, lastUpdate>>
    /\ UNCHANGED <<body, pos, held, buffer>>

\* A variant that ends the sequence without looking at what is left in the
\* buffer.
StreamReadDoneNoFlush ==
    /\ pc = "s_read"
    /\ pos = Len(body)
    /\ reader' = "released"
    /\ result' = Ended
    /\ pc' = "done"
    /\ UNCHANGED <<cfg, args, requestBody, entryCfg, attempt, lastError, reqTimeout, timers, requests, trace,
                   respStatus, respBody, updates, cfgTouched, lastUpdate>>
    /\ UNCHANGED <<body, pos, held, buffer, lines, yielded>>

\* reader.read() resolves with done: the loop is left and what is left in
\* the buffer is looked at; then the finally block releases the reader.
StreamReadDone ==
    /\ pc = "s_read"
    /\ pos = Len(body)
    /\ LET data == Slice(buffer, 6)
       IN  IF StartsWith(buffer, Marker) /\ data # Sentinel /\ JSONparse(data).ok
             THEN /\ yielded' = Append(yielded, JSONparse(data).value)
                  /\ pc' = "s_yield_last"
                  /\ UNCHANGED <<reader, result>>
             ELSE /\ reader' = "released"
                  /\ result' = Ended
                  /\ pc' = "done"
                  /\ UNCHANGED yielded
    /\ UNCHANGED <<cfg, args, requestBody, entryCfg, attempt, lastError, reqTimeout, timers, requests, trace,
                   respStatus, respBody, updates, cfgTouched, lastUpdate>>
    /\ UNCHANGED <<body, pos, held, buffer, lines>>

\* The consumer asks for the next chunk after the yield of the last line.
StreamFinish ==
    /\ pc = "s_yield_last"
    /\ reader' = "released"
    /\ result' = Ended
    /\ pc' = "done"
    /\ UNCHANGED <<cfg, args, requestBody, entryCfg, attempt, lastError, reqTimeout, timers, requests, trace,
                   respStatus, respBody, updates, cfgTouched, lastUpdate>>
    /\ UNCHANGED <<body, pos, held, buffer, lines, yielded>>

\* reader.read() rejects: finally releases the reader, catch wraps.
StreamReadError ==
    /\ pc = "s_read"
    /\ reader' = "released"
    /\ result' = StreamFailure(NetErr.message)
    /\ pc' = "done"
    /\ UNCHANGED <<cfg, args, requestBody, entryCfg, attempt, lastError, reqTimeout, timers, requests, trace,
                   respStatus, respBody, updates, cfgTouched, lastUpdate>>
    /\ UNCHANGED <<body, pos, held, buffer, lines, yielded>>

\* A variant without the finally block.
StreamDropNoRelease ==
    /\ pc \in {"s_yield", "s_yield_last"}
    /\ result' = Dropped
    /\ pc' = "done"
    /\ UNCHANGED <<cfg, args, requestBody, entryCfg, attempt, lastError, reqTimeout, timers, requests, trace,
                   respStatus, respBody, updates, cfgTouched, lastUpdate>>
    /\ UNCHANGED <<body, pos, held, buffer, lines, yielded, reader>>

\* The consumer leaves its loop at a yield: generator.return() runs the
\* finally block.
StreamDrop ==
    /\ pc \in {"s_yield", "s_yield_last"}
    /\ reader' = "released"
    /\ result' = Dropped
    /\ pc' = "done"
    /\ UNCHANGED <<cfg, args, requestBody, entryCfg, attempt, lastError, reqTimeout, timers, requests, trace,
                   respStatus, respBody, updates, cfgTouched, lastUpdate>>
    /\ UNCHANGED <<body, pos, held, buffer, lines, yielded>>

(***************************************************************************)
(* The minimal wrapper (wrapper.services.js): a client of two fields,      *)
(* apiKey and baseUrl, whose methods make one fetch without a timer.       *)
(***************************************************************************)
WrapperMethods == {"wrapper.chat", "wrapper.completion", "wrapper.response",
                   "wrapper.getModels", "wrapper.getModel"}

\* if (maxTokens) requestBody.max_tokens = maxTokens
WrapperIncluded(o) == IF Truthy(OptValue(o)) THEN Given(OptValue(o)) ELSE Unset

\* The body a method of the wrapper builds: response(model, input,
\* maxTokens) is chat with the single message of the user.
WrapperBody(a, c) ==
    IF a.method \in {"wrapper.getModels", "wrapper.getModel"}
      THEN NoRequestBody
      ELSE [present     |-> TRUE,
            model       |-> a.model,
            messages    |-> CASE a.method = "wrapper.chat" -> a.messages
                              [] a.method = "wrapper.response" ->
                                   ArrayOf(<<Msg(Str("user"), a.prompt)>>)
                              [] OTHER -> NotArray,
            prompt      |-> IF a.method = "wrapper.completion"
                              THEN Given(a.prompt) ELSE Unset,
            api_key     |-> c.apiKey,
            stream      |-> FALSE,
            temperature |-> Unset,
            max_tokens  |-> WrapperIncluded(a.maxTokens),
            timeout     |-> Unset]

\* The object the catch block returns: fixed message, type and code, and
\* details: error.message || "Unknown error".
WrapperEnvelope(error) ==
    [Envelope("Network error occurred", "network_error", "client_error")
       EXCEPT !.body.text = OrElse(Str(error.message), Str("Unknown error")).s]

\* A method of the wrapper is called: the body is built and fetch issued.
WrapperCall ==
    /\ pc = "idle"
    /\ args.method \in WrapperMethods
    /\ requestBody' = WrapperBody(args, cfg)
    /\ requests' = Append(requests, Request(cfg, WrapperBody(args, cfg)))
    /\ entryCfg' = cfg
    /\ pc' = "w_fetching"
    /\ UNCHANGED <<respStatus, respBody, result>>
    /\ UNCHANGED <<cfg, args, attempt, lastError, reqTimeout, timers, trace,
                   updates, cfgTouched, lastUpdate>>
    /\ UNCHANGED streamVars

\* fetch rejects: the catch block returns the envelope.
WrapperFetchReject ==
    /\ pc = "w_fetching"
    /\ \E e \in FetchErrors : result' = WrapperEnvelope(e)
    /\ pc' = "done"
    /\ UNCHANGED <<requestBody, entryCfg, requests, respStatus, respBody>>
    /\ UNCHANGED <<cfg, args, attempt, lastError, reqTimeout, timers, trace,
                   updates, cfgTouched, lastUpdate>>
    /\ UNCHANGED streamVars

\* fetch resolves with a response, whatever its status; response.json()
\* is awaited.
WrapperFetchResolve ==
    /\ pc = "w_fetching"
    /\ \E st \in Statuses : respStatus' = st
    /\ \E w \in WireBodies : respBody' = w
    /\ pc' = "w_reading"
    /\ UNCHANGED <<requestBody, entryCfg, requests, result>>
    /\ UNCHANGED <<cfg, args, attempt, lastError, reqTimeout, timers, trace,
                   updates, cfgTouched, lastUpdate>>
    /\ UNCHANGED streamVars

\* A variant that answers a status of 400 and above with the envelope.
WrapperJsonSettleOnStatus ==
    /\ pc = "w_reading"
    /\ respBody.wire \in {"json", "garbage", "broken"}
    /\ result' = CASE respBody.wire = "garbage" -> WrapperEnvelope(ParseErr)
                    [] respBody.wire = "broken"  -> WrapperEnvelope(NetErr)
                    [] OTHER -> IF respStatus >= 400
                                  THEN WrapperEnvelope(Err("Error", "HTTP error"))
                                  ELSE Returned(respBody.value)
    /\ pc' = "done"
    /\ UNCHANGED <<requestBody, entryCfg, requests, respStatus, respBody>>
    /\ UNCHANGED <<cfg, args, attempt, lastError, reqTimeout, timers, trace,
                   updates, cfgTouched, lastUpdate>>
    /\ UNCHANGED streamVars

\* response.json() settles: the parsed body is returned as it is, a
\* rejection is caught and the envelope returned.
WrapperJsonSettle ==
    /\ pc = "w_reading"
    /\ respBody.wire \in {"json", "garbage", "broken"}
    /\ result' = CASE respBody.wire = "garbage" -> WrapperEnvelope(ParseErr)
                    [] respBody.wire = "broken"  -> WrapperEnvelope(NetErr)
                    [] OTHER -> Returned(respBody.value)
    /\ pc' = "done"
    /\ UNCHANGED <<requestBody, entryCfg, requests, respStatus, respBody>>
    /\ UNCHANGED <<cfg, args, attempt, lastError, reqTimeout, timers, trace,
                   updates, cfgTouched, lastUpdate>>
    /\ UNCHANGED streamVars

(***************************************************************************)
(* updateConfig(config).                                                   *)
(***************************************************************************)
Started == pc # "idle"

UpdateConfig ==
    /\ pc # "unbuilt"
    /\ updates > 0
    /\ \E config \in (IF args.partials = "store" THEN ConfigPartials ELSE Partials) :
         /\ cfg' = updateConfig(cfg, config)
         /\ lastUpdate' = config
    /\ updates' = updates - 1
    /\ cfgTouched' = (cfgTouched \/ Started)
    /\ UNCHANGED <<args, requestBody, entryCfg, pc, attempt, lastError, reqTimeout, timers,
                   requests, trace, respStatus, respBody, result>>
    /\ UNCHANGED streamVars

(***************************************************************************)
(* The specification.                                                      *)
(***************************************************************************)
\* The bodies a server streams: up to MaxLines lines of LineMenu joined by
\* line feeds, with or without a line feed after the last one.
LineMenu ==
    {Marker \o <<"1">>,                        \* data: 1
     Marker \o <<"\"", "C3", "A9", "\"">>,     \* data: "e9" (two bytes)
     Marker \o <<"x">>,                        \* data: x (no JSON)
     Marker \o Sentinel,                       \* data: [DONE]
     <<>>,                                     \* the empty line between events
     <<"d", "a", "t", "a", ":", "1">>,         \* data:1 (no event line)
     Marker \o Sentinel \o <<"\r">>}           \* data: [DONE] before CR LF

RECURSIVE JoinLines(_)
JoinLines(q) ==
    IF Len(q) = 0 THEN <<>>
    ELSE IF Len(q) = 1 THEN q[1]
    ELSE q[1] \o <<LF>> \o JoinLines(Tail(q))

\* The event stream of the protocol's description, a stream that goes on
\* after its sentinel, and one with a malformed event between two events.
LongBodies ==
    {Marker \o <<"1", LF, LF>> \o Marker \o Sentinel \o <<LF, LF>>,
     Marker \o <<"1", LF>> \o Marker \o Sentinel \o <<LF>> \o Marker \o <<"2", LF>>,
     Marker \o <<"1", LF, LF>> \o Marker \o <<"x", LF, LF>> \o Marker \o <<"2", LF, LF>>}

Bodies ==
    {JoinLines(q) \o tail : q \in SeqsUpTo(LineMenu, MaxLines), tail \in {<<>>, <<LF>>}}
    \cup LongBodies
OneBody == Marker \o <<"1", LF>> \o Marker \o <<"2">>

\* The clients and calls followed.  The retry loop is followed for every
\* retry count and delay under one call, with updateConfig running during
\* the call; every method, timeout option and default timeout is followed
\* under one retry count; every malformed input is followed under one
\* configuration; every stream body under one configuration and call.
GoodArgs == [method |-> "chat", model |-> Str("gpt-4.1-mini"),
             messages |-> ArrayOf(<<GoodMsg>>), prompt |-> Str("Hello"),
             timeout |-> Unset, temperature |-> Unset, maxTokens |-> Unset,
             partials |-> "call", silent |-> FALSE]

RetryScenarios ==
    {[cfg |-> [DefaultConfig EXCEPT !.retries = r, !.retryDelay = d],
      args |-> GoodArgs, body |-> OneBody, updates |-> MaxUpdates] :
        r \in RetriesValues, d \in RetryDelayValues}

TimeoutScenarios ==
    {[cfg |-> [DefaultConfig EXCEPT !.retries = 0, !.timeout = t],
      args |-> [GoodArgs EXCEPT !.method = m, !.timeout = o],
      body |-> OneBody, updates |-> 0] :
        t \in TimeoutValues, m \in Methods, o \in OptTimeouts}

InputScenarios ==
    {[cfg |-> [DefaultConfig EXCEPT !.retries = 0, !.debug = TRUE],
      args |-> [GoodArgs EXCEPT !.method = m, !.model = mo, !.messages = ms],
      body |-> OneBody, updates |-> 0] :
        m \in {"chat", "stream"}, mo \in ModelValues, ms \in MessagesValues}
    \cup
    {[cfg |-> [DefaultConfig EXCEPT !.retries = 0, !.debug = TRUE],
      args |-> [GoodArgs EXCEPT !.method = m, !.model = mo, !.prompt = pr],
      body |-> OneBody, updates |-> 0] :
        m \in {"completion", "responses", "streamCompletion"},
        mo \in ModelValues, pr \in PromptValues}

StreamScenarios ==
    {[cfg |-> DefaultConfig, args |-> [GoodArgs EXCEPT !.method = "stream"],
      body |-> b, updates |-> 0] : b \in Bodies}
    \cup
    {[cfg |-> [DefaultConfig EXCEPT !.retries = 1], args |-> GoodArgs,
      body |-> OneBody, updates |-> MaxUpdates]}
    \cup
    {[cfg |-> [DefaultConfig EXCEPT !.retries = r],
      args |-> [GoodArgs EXCEPT !.method = m],
      body |-> OneBody, updates |-> 0] : r \in RetriesValues, m \in StreamMethods}

\* Clients built with other values than the defaults, updated before a
\* call is made on them.
ConfigScenarios ==
    {[cfg |-> [DefaultConfig EXCEPT !.retries = 1, !.debug = d, !.timeout = t,
                                    !.retryDelay = IF d THEN 500 ELSE 0],
      args |-> [GoodArgs EXCEPT !.method = m, !.partials = "store"],
      body |-> OneBody, updates |-> MaxUpdates] :
        d \in BOOLEAN, t \in TimeoutValues, m \in {"chat", "stream"}}

\* Every POST method called with every temperature and maxTokens option.
OptionScenarios ==
    {[cfg |-> [DefaultConfig EXCEPT !.retries = 1, !.retryDelay = 0],
      args |-> [GoodArgs EXCEPT !.method = m, !.temperature = t, !.maxTokens = k],
      body |-> OneBody, updates |-> 0] :
        m \in PostMethods, t \in OptionValues, k \in OptionValues}

\* A server that leaves the first request unanswered, so that the first
\* attempt ends by its timeout.
SilentScenarios ==
    {[cfg |-> [DefaultConfig EXCEPT !.retries = r, !.retryDelay = 0],
      args |-> [GoodArgs EXCEPT !.silent = TRUE],
      body |-> OneBody, updates |-> 0] : r \in 1 .. 2}

\* testConnection and healthCheck on clients that make no, one and two
\* attempts.
DiagnosticScenarios ==
    {[cfg |-> [DefaultConfig EXCEPT !.retries = r, !.retryDelay = 0],
      args |-> [GoodArgs EXCEPT !.method = m],
      body |-> OneBody, updates |-> 0] : r \in {-1, 0, 1}, m \in DiagnosticMethods}

\* Every non-streaming method of the wrapper, with and without maxTokens,
\* with messages that are a list and that are none.
WrapperScenarios ==
    {[cfg |-> DefaultConfig,
      args |-> [GoodArgs EXCEPT !.method = m, !.maxTokens = k, !.messages = ms],
      body |-> OneBody, updates |-> 0] :
        m \in WrapperMethods, k \in {Unset, Given(Num(0)), Given(Num(5))},
        ms \in {ArrayOf(<<GoodMsg>>), NotArray}}

InitOf(scenarios) ==
    /\ StartState
    /\ StreamStart
    /\ \E sc \in scenarios :
         /\ cfg = sc.cfg /\ args = sc.args /\ body = sc.body /\ updates = sc.updates
         /\ entryCfg = sc.cfg

\* new ExnestAI(o) for every o of ConstructorOptions, and a chat on the
\* client built; pc = "unbuilt" when the constructor threw: there is no
\* client and no method to call.
ConstructedInit ==
    /\ Untouched
    /\ StreamStart
    /\ \E o \in ConstructorOptions :
         /\ cfg = construct(o).fields
         /\ entryCfg = construct(o).fields
         /\ pc = IF construct(o).ok THEN "idle" ELSE "unbuilt"
         /\ result = IF construct(o).ok THEN NoResult ELSE Thrown(construct(o).message)
         /\ args = IF construct(o).ok THEN GoodArgs ELSE [GoodArgs EXCEPT !.method = "none"]
    /\ body = OneBody
    /\ updates = 0

Init == \/ ConstructedInit
        \/ InitOf(RetryScenarios \cup TimeoutScenarios \cup InputScenarios \cup ConfigScenarios
                  \cup OptionScenarios \cup SilentScenarios \cup DiagnosticScenarios
                  \cup WrapperScenarios)

StreamInit == InitOf(StreamScenarios \cup WrapperScenarios)

Next ==
    \/ Call
    \/ FetchResolve
    \/ FetchReject
    \/ JsonResolve
    \/ JsonReject
    \/ TimerFire
    \/ DelayDone
    \/ UpdateConfig
    \/ StreamCall
    \/ StreamFetchReject
    \/ StreamFetchResolve
    \/ StreamJsonSettle
    \/ StreamRead
    \/ StreamResume
    \/ StreamReadDone
    \/ StreamFinish
    \/ StreamReadError
    \/ StreamDrop
    \/ WrapperCall
    \/ WrapperFetchReject
    \/ WrapperFetchResolve
    \/ WrapperJsonSettle

\* The steps of a client whose methods read the configuration c.
NextOf(c) ==
    \/ CallOf(c)
    \/ FetchResolve
    \/ FetchRejectOf(c)
    \/ JsonResolve
    \/ JsonRejectOf(c)
    \/ TimerFireOf(c)
    \/ DelayDoneOf(c)
    \/ UpdateConfig
    \/ StreamCallOf(c)
    \/ StreamFetchReject
    \/ StreamFetchResolve
    \/ StreamJsonSettle
    \/ StreamRead
    \/ StreamResume
    \/ StreamReadDone
    \/ StreamFinish
    \/ StreamReadError
    \/ StreamDrop
    \/ WrapperCall
    \/ WrapperFetchReject
    \/ WrapperFetchResolve
    \/ WrapperJsonSettle

\* Every client and non-streaming call, every malformed input.
Spec == Init /\ [][Next]_vars

\* Every stream body.
StreamSpec == StreamInit /\ [][Next]_vars

\* Calls under an event loop that runs what is ready: the caller makes its
\* call, armed timers fire, a backoff delay elapses, and a body that has
\* arrived is parsed or found unparseable.  The server owes nothing: it may
\* leave a request unanswered or a body incomplete.
FairInit ==
    InitOf(TimeoutScenarios \cup SilentScenarios \cup DiagnosticScenarios
           \cup WrapperScenarios
           \cup {sc \in RetryScenarios : sc.cfg.retries = 1 /\ sc.cfg.retryDelay = 0})

FairSpec ==
    /\ FairInit
    /\ [][Next]_vars
    /\ WF_vars(Call)
    /\ WF_vars(TimerFire)
    /\ WF_vars(DelayDone)
    /\ WF_vars(JsonResolve)
    /\ WF_vars(JsonReject)


(***************************************************************************)
(* Properties.                                                             *)
(***************************************************************************)
NumWaits == Cardinality({i \in DOMAIN trace : trace[i].ev = "wait"})
NonStreamCall == args.method \in NonStreamMethods
Validated == ValidationError(args) = ""

\* The malformed inputs, as the validator's contract lists them.
Malformed(model, messages) ==
    \/ model.t # "string" \/ model.s = ""
    \/ ~messages.isArray \/ messages.items = <<>>
    \/ \E i \in DOMAIN messages.items :
         ~(messages.items[i].role.t = "string"
           /\ messages.items[i].role.s \in {"system", "user", "assistant"})
    \/ \E i \in DOMAIN messages.items :
         messages.items[i].content.t # "string" \/ messages.items[i].content.s = ""

ValidationMessages ==
    {"Model must be a non-empty string",
     "Messages must be a non-empty array",
     "Each message must have a valid role (system, user, or assistant)",
     "Each message must have non-empty content"}

\* C1: a call of chat or stream with a malformed model id or message list
\* fails with a validation error and issues no HTTP exchange, then or later.
C1_MalformedInputIssuesNoExchange ==
    (args.method \in {"chat", "stream"} /\ Malformed(args.model, args.messages)
       /\ pc # "idle")
    => /\ pc = "done"
       /\ result.kind = "throw"
       /\ result.message \in ValidationMessages
       /\ Exchanges = 0
       /\ trace = <<>>

C1_Witness ==
    /\ pc = "done"
    /\ args.method = "stream"
    /\ Len(args.messages.items) = 2
    /\ args.messages.items[1] = GoodMsg
    /\ args.messages.items[2].content = Str("")
    /\ result = Thrown("Each message must have non-empty content")
    /\ Exchanges = 0

\* C2: when response.json() of an attempt resolves with a parsed body, the
\* call ends with exactly that body as its result, whatever the status and
\* whether or not the body carries an error; nothing is issued after it.
C2_ParsedBodyIsReturned ==
    [][ /\ (NonStreamCall /\ pc = "reading" /\ respBody.wire = "json" /\ pc' # "reading")
           => /\ pc' = "done"
              /\ result' = Returned(respBody.value)
              /\ Exchanges' = Exchanges
        /\ (NonStreamCall /\ result.kind = "body")
           => /\ result' = result
              /\ pc' = "done"
              /\ Exchanges' = Exchanges ]_vars

C2_Witness ==
    /\ NonStreamCall
    /\ pc = "done"
    /\ respStatus = 500
    /\ result.kind = "body"
    /\ result.body.hasError
    /\ Exchanges = 1

\* C3: with the configuration not changed during the call, a call issues
\* min(retries, N) + 1 exchanges when N attempts fail and the next one
\* succeeds, retries + 1 exchanges when every attempt fails, and never more
\* than retries + 1.
C3_Counts ==
    /\ Exchanges <= cfg.retries + 1
    /\ (pc = "done" /\ result.kind = "body")
       => Exchanges = Min(cfg.retries, NumWaits) + 1
    /\ (pc = "done" /\ result.kind # "body")
       => Exchanges = cfg.retries + 1

C3_ExchangeCount ==
    (NonStreamCall /\ Validated /\ pc # "idle" /\ ~cfgTouched) => C3_Counts

\* The same counts hold for every retry count from -1 upwards.
C3_ExchangeCountFromMinusOne ==
    (NonStreamCall /\ Validated /\ pc # "idle" /\ ~cfgTouched /\ cfg.retries >= -1)
    => C3_Counts

\* C4: after the failure of attempt i < retries the executor waits
\* retryDelay * (i + 1) and only then issues attempt i + 1; a wait happens
\* only between two attempts: none before the first attempt, none after the
\* failure of the last one.
C4_WaitStep ==
    /\ (Len(trace') > Len(trace) /\ trace'[Len(trace')].ev = "wait")
       => /\ pc \in {"fetching", "reading"}
          /\ attempt < cfg.retries
          /\ trace' = Append(trace, Event("wait", attempt, cfg.retryDelay * (attempt + 1)))
          /\ trace[Len(trace)] = Event("exchange", attempt, reqTimeout)
          /\ pc' = "waiting"
    /\ (pc \in {"fetching", "reading"} /\ pc' \notin {"fetching", "reading"}
          /\ attempt < cfg.retries /\ result'.kind # "body")
       => pc' = "waiting"
    /\ (pc = "waiting" /\ pc' # "waiting")
       => /\ pc' = "fetching"
          /\ trace' = Append(trace, Event("exchange", attempt + 1, reqTimeout))
    /\ (pc = "waiting") => Exchanges' = Exchanges \/ pc' = "fetching"

C4_BackoffBetweenAttempts == [][NonStreamCall => C4_WaitStep]_vars

\* The same holds of every step of a call during which updateConfig has not
\* run.
C4_BackoffBetweenAttemptsUntouched ==
    [][(NonStreamCall /\ ~cfgTouched') => C4_WaitStep]_vars

\* C5: when k attempts fail and attempt k + 1 obtains a parseable body, the
\* call returns that body, not a synthesized error, after exactly k + 1
\* exchanges.
C5_SuccessAfterFailures ==
    (NonStreamCall /\ pc = "done" /\ respBody.wire = "json")
    => /\ result = Returned(respBody.value)
       /\ Exchanges = NumWaits + 1
       /\ attempt = NumWaits
       /\ \A i \in DOMAIN trace :
            trace[i].ev = (IF i % 2 = 1 THEN "exchange" ELSE "wait")

C5_Witness ==
    /\ NonStreamCall
    /\ ~cfgTouched
    /\ cfg.retries = 3
    /\ pc = "done"
    /\ NumWaits = 2
    /\ Exchanges = 3
    /\ result.kind = "body"
    /\ ~result.body.hasError

\* C6: once validation has passed, a non-streaming call never throws.
C6_NeverThrows ==
    (NonStreamCall /\ Validated) => result.kind # "throw"

\* C7, as stated: the envelope has code timeout and category timeout_error
\* for an abort, code network_error and category client_error for any other
\* failure, and its message is the failure's own text when it has one and a
\* fixed fallback otherwise.
C7_EnvelopeCodes ==
    /\ lastError.name = "AbortError"
       => (result.code = "timeout" /\ result.type = "timeout_error")
    /\ lastError.name # "AbortError"
       => (result.code = "network_error" /\ result.type = "client_error")

C7_MessageIsOwnText ==
    (NonStreamCall /\ result.kind = "envelope")
    => /\ C7_EnvelopeCodes
       /\ result.message = (IF lastError.message # "" THEN lastError.message
                            ELSE "Network error occurred")

\* C7, amended: the message of the envelope of an abort is the fixed text
\* "Request timeout"; the message of any other envelope is the failure's own
\* text when it has one and "Network error occurred" otherwise.
C7_EnvelopeOfLastFailure ==
    (NonStreamCall /\ result.kind = "envelope")
    => /\ C7_EnvelopeCodes
       /\ result.message =
            (IF lastError.name = "AbortError" THEN "Request timeout"
             ELSE IF lastError.message # "" THEN lastError.message
             ELSE "Network error occurred")
       /\ result.body = [hasError |-> TRUE, text |-> result.message]

C7_Witness ==
    /\ NonStreamCall
    /\ pc = "done"
    /\ lastError = AbortErr
    /\ result = Envelope("Request timeout", "timeout", "timeout_error")

\* The timeout option the caller passed; responses() takes none.
PassedTimeout == IF args.method = "responses" THEN Unset ELSE args.timeout

TimeoutOfEveryExchange(t) ==
    /\ reqTimeout = t
    /\ \A i \in DOMAIN trace : trace[i].ev = "exchange" => trace[i].n = t

\* C8, as stated: the timeout of every attempt is the smaller of the option
\* and the client's timeout when the caller passes the option, and the
\* client's timeout otherwise.
C8_TimeoutIsTheSmaller ==
    (NonStreamCall /\ Validated /\ pc # "idle" /\ ~cfgTouched)
    => TimeoutOfEveryExchange(IF PassedTimeout.set
                                THEN Min(PassedTimeout.v.n, cfg.timeout)
                                ELSE cfg.timeout)

\* C8, amended: the timeout of every attempt is the option when the caller
\* passes one other than 0, larger than the client's timeout or not, and
\* the client's timeout otherwise.
C8_TimeoutIsTheOption ==
    (NonStreamCall /\ Validated /\ pc # "idle" /\ ~cfgTouched)
    => TimeoutOfEveryExchange(IF PassedTimeout.set /\ PassedTimeout.v.n # 0
                                THEN PassedTimeout.v.n
                                ELSE cfg.timeout)

C8_Witness ==
    /\ NonStreamCall
    /\ ~cfgTouched
    /\ args.timeout = Given(Num(60000))
    /\ cfg.timeout = DefaultTimeout
    /\ Exchanges = 1
    /\ trace[1] = Event("exchange", 0, 60000)

\* C9: as long as an attempt has no parsed body, while its request is
\* pending and while its body is read, its abort timer is armed, so that
\* the timeout aborts the exchange.
C9_TimerArmedUntilBodyParsed ==
    (NonStreamCall /\ pc \in {"fetching", "reading"})
    => timers[Len(timers)] = "pending"

StreamingCall == args.method \in StreamMethods

IsPrefix(p, q) == Len(p) <= Len(q) /\ p = SubSeq(q, 1, Len(p))

\* The lines of a text: what a line feed ends, and what follows the last
\* line feed when it is not empty.
TextLines(bytes) ==
    LET parts == Split(Decode(<<>>, bytes).text)
    IN  IF parts[Len(parts)] = <<>> THEN SubSeq(parts, 1, Len(parts) - 1) ELSE parts

\* The lines of the text that a line feed has ended.
EndedLines(bytes) ==
    LET parts == Split(Decode(<<>>, bytes).text)
    IN  SubSeq(parts, 1, Len(parts) - 1)

IsEventLine(line) == StartsWith(line, Marker)
IsSentinelLine(line) == line = Marker \o Sentinel

\* The payloads of the valid event lines, in order, up to the first line
\* whose payload is the sentinel.
RECURSIVE PayloadsUpToSentinel(_)
PayloadsUpToSentinel(ls) ==
    IF ls = <<>> THEN <<>>
    ELSE IF IsSentinelLine(Head(ls)) THEN <<>>
    ELSE IF IsEventLine(Head(ls)) /\ JSONparse(Slice(Head(ls), 6)).ok
           THEN <<JSONparse(Slice(Head(ls), 6)).value>> \o PayloadsUpToSentinel(Tail(ls))
           ELSE PayloadsUpToSentinel(Tail(ls))

ExpectedChunks == PayloadsUpToSentinel(TextLines(body))

\* C10: a streaming sequence yields the parsed payloads of the valid event
\* lines in the order they arrive; it ends, without error, at the first line
\* whose payload is the sentinel, and yields nothing that arrives after it.
C10_ChunksInOrderUpToSentinel ==
    StreamingCall
    => /\ IsPrefix(yielded, ExpectedChunks)
       /\ result = Ended => yielded = ExpectedChunks
       /\ pc \in {"s_read", "s_yield_last"}
          => \A i \in DOMAIN EndedLines(SubSeq(body, 1, pos)) :
               ~IsSentinelLine(EndedLines(SubSeq(body, 1, pos))[i])
       /\ (pc = "done" /\ reader = "released" /\ result.kind = "throw")
          => \A i \in DOMAIN EndedLines(SubSeq(body, 1, pos)) :
               ~IsSentinelLine(EndedLines(SubSeq(body, 1, pos))[i])

C10_Witness ==
    /\ StreamingCall
    /\ body = Marker \o <<"1", LF>> \o Marker \o Sentinel \o <<LF>> \o Marker \o <<"2", LF>>
    /\ pos = Len(body)
    /\ result = Ended
    /\ yielded = <<Num(1)>>

Payload(line) == Slice(line, 6)
ValidEvent(line) ==
    IsEventLine(line) /\ ~IsSentinelLine(line) /\ JSONparse(Payload(line)).ok
MalformedEvent(line) ==
    IsEventLine(line) /\ ~IsSentinelLine(line) /\ ~JSONparse(Payload(line)).ok

\* The lines before the first line whose payload is the sentinel.
RECURSIVE BeforeSentinel(_)
BeforeSentinel(ls) ==
    IF ls = <<>> \/ IsSentinelLine(Head(ls)) THEN <<>>
    ELSE <<Head(ls)>> \o BeforeSentinel(Tail(ls))

HasSentinel(ls) == \E i \in DOMAIN ls : IsSentinelLine(ls[i])

\* C11: an event line whose payload is no JSON is skipped: it neither ends
\* nor fails the sequence, and every valid event line after it and before a
\* sentinel is still yielded.
C11_MalformedEventIsSkipped ==
    LET ls == BeforeSentinel(TextLines(body))
    IN  (StreamingCall /\ \E i \in DOMAIN ls : MalformedEvent(ls[i]))
        => /\ result = Ended
              => /\ \A i, j \in DOMAIN ls :
                      (i < j /\ MalformedEvent(ls[i]) /\ ValidEvent(ls[j]))
                      => \E k \in DOMAIN yielded :
                           yielded[k] = JSONparse(Payload(ls[j])).value
                 /\ Len(yielded) = Cardinality({i \in DOMAIN ls : ValidEvent(ls[i])})
                 /\ pos = Len(body) \/ HasSentinel(EndedLines(SubSeq(body, 1, pos)))
           /\ (reader # "none" /\ result.kind = "throw")
              => result = Thrown("Streaming failed: fetch failed")

C11_Witness ==
    /\ StreamingCall
    /\ body = Marker \o <<"1", LF, LF>> \o Marker \o <<"x", LF, LF>> \o Marker \o <<"2", LF, LF>>
    /\ result = Ended
    /\ yielded = <<Num(1), Num(2)>>

\* C12: a streaming call issues exactly one HTTP exchange, whatever the
\* retry count and whatever happens to the exchange; it never waits to try
\* again.
C12_StreamIssuesOneExchange ==
    (StreamingCall /\ pc # "idle")
    => IF Validated
         THEN /\ Exchanges = 1
              /\ trace = <<Event("exchange", 0, reqTimeout)>>
              /\ attempt = 0
         ELSE Exchanges = 0 /\ trace = <<>>

C12_Witness ==
    /\ StreamingCall
    /\ cfg.retries = DefaultRetries
    /\ pc = "done"
    /\ reader = "released"
    /\ result = Thrown("Streaming failed: fetch failed")
    /\ Exchanges = 1

\* C13: a failure to open the exchange, an abort, or an error while the
\* body is read ends the sequence with an exception whose message is
\* "Streaming failed: " and the failure's message; nothing is yielded
\* after it, and what was yielded before stays.
C13_StreamFailureStep ==
    /\ (pc = "s_fetching" /\ timers[1] = "pending" /\ timers'[1] = "fired")
       => /\ result' = Thrown("Streaming failed: " \o AbortErr.message)
          /\ pc' = "done"
    /\ (pc = "s_fetching" /\ pc' = "done" /\ timers' = timers)
       => result' \in {Thrown("Streaming failed: " \o e.message) : e \in FetchErrors}
    /\ (pc = "s_read" /\ pc' = "done" /\ result'.kind = "throw")
       => /\ result' = Thrown("Streaming failed: " \o NetErr.message)
          /\ yielded' = yielded
    /\ result.kind = "throw"
       => (result' = result /\ yielded' = yielded /\ pc' = "done")

C13_StreamFailureIsTerminal == [][StreamingCall => C13_StreamFailureStep]_vars

C13_Witness ==
    /\ StreamingCall
    /\ pc = "done"
    /\ result = Thrown("Streaming failed: fetch failed")
    /\ reader = "released"
    /\ Len(yielded) = 1

\* C14: once the reader is taken it is released on every way out of the
\* sequence (sentinel, end of body, read error, the consumer leaving), once:
\* a released reader is never taken or released again, and no sequence that
\* ended holds its reader.
C14_ReaderStep ==
    /\ (reader = "none" /\ reader' # "none")
       => (reader' = "locked" /\ pc = "s_fetching" /\ pc' = "s_read")
    /\ (reader = "locked" /\ pc' = "done") => reader' = "released"
    /\ (reader = "locked" /\ reader' # "locked")
       => (reader' = "released" /\ pc # "done" /\ pc' = "done")
    /\ reader = "released" => (reader' = "released" /\ pc = "done" /\ pc' = "done")

C14_ReaderReleasedOnce == [][StreamingCall => C14_ReaderStep]_vars

C14_Witness ==
    /\ StreamingCall
    /\ pc = "done"
    /\ result = Dropped
    /\ reader = "released"
    /\ pos < Len(body)

\* The message a response that is no event stream fails the sequence with,
\* by the body's message m ("" when it has none).
MessageOfBody(m) ==
    "Streaming failed: " \o (IF m # "" THEN m ELSE "Streaming request failed")

WasNoEventStream == StreamingCall /\ pc = "done" /\ respBody.wire # "none"

C16_TrailingLineIsFlushed ==
    LET parts == Split(Decode(<<>>, body).text)
        full  == SubSeq(parts, 1, Len(parts) - 1)
        last  == parts[Len(parts)]
        flush == IF ValidEvent(last) THEN <<JSONparse(Payload(last)).value>> ELSE <<>>
    IN  (StreamingCall /\ ~HasSentinel(full))
        => /\ result = Ended
              => (pos = Len(body) /\ yielded = PayloadsUpToSentinel(full) \o flush)
           /\ pc = "s_yield_last"
              => (ValidEvent(last) /\ yielded = PayloadsUpToSentinel(full) \o flush)
           /\ (reader # "none" /\ pos = Len(body) /\ result.kind = "throw")
              => result = Thrown("Streaming failed: fetch failed")

C16_Witness ==
    /\ StreamingCall
    /\ body = Marker \o <<"x", LF>> \o Marker \o <<"1">>
    /\ result = Ended
    /\ yielded = <<Num(1)>>

\* C17: in a streaming call the abort timer stays armed until the sequence
\* has ended: while the exchange is opened, while the body is read, and
\* while the consumer holds a chunk.
C17_TimeoutCoversStream ==
    (StreamingCall /\ pc \in {"s_fetching", "s_json", "s_read", "s_yield", "s_yield_last"})
    => timers[1] = "pending"

Fields == {"apiKey", "baseUrl", "timeout", "retries", "retryDelay", "debug"}

\* C18: updateConfig applies a field given with a falsy value that means
\* something: after updateConfig({debug: false}) getConfig().debug is false,
\* and after updateConfig with timeout, retries or retryDelay 0 getConfig()
\* reports 0 for that field, whatever it was before.
C18_FalsyValuesApply ==
    /\ lastUpdate.debug = Given(Bool(FALSE)) => getConfig(cfg).debug = FALSE
    /\ \A f \in {"timeout", "retries", "retryDelay"} :
         lastUpdate[f] = Given(Num(0)) => getConfig(cfg)[f] = 0

C18_Witness ==
    /\ lastUpdate = [NoUpdate EXCEPT !.debug = Given(Bool(FALSE))]
    /\ cfg.retryDelay = 500
    /\ getConfig(cfg).debug = FALSE

\* C19: updateConfig changes only the fields its argument holds: every
\* other field has the same value in getConfig() after the call as before.
C19_AbsentFieldsKept ==
    [][updates' # updates
       => \A f \in Fields :
            ~lastUpdate'[f].set
            => (getConfig(cfg)[f])' = getConfig(cfg)[f] /\ cfg'[f] = cfg[f]]_vars

C19_Witness ==
    /\ lastUpdate = [NoUpdate EXCEPT !.retries = Given(Num(0))]
    /\ getConfig(cfg) = [baseUrl |-> "https://api.exnest.app/v1", timeout |-> 0,
                         retries |-> 0, retryDelay |-> 500, debug |-> TRUE,
                         apiKey |-> <<"*", "*", "*", "*", "-", "k", "e", "y">>]

\* C20: with no updateConfig between them, two calls of getConfig() return
\* equal snapshots, whatever steps of chat, stream or other calls run
\* between them.
C20_SnapshotsEqual ==
    [][updates' = updates => getConfig(cfg)' = getConfig(cfg)]_vars

C20_Witness ==
    /\ updates = MaxUpdates
    /\ pc = "done"
    /\ Exchanges = DefaultRetries + 1
    /\ getConfig(cfg) = [baseUrl |-> "https://api.exnest.app/v1",
                         timeout |-> DefaultTimeout, retries |-> DefaultRetries,
                         retryDelay |-> DefaultRetryDelay, debug |-> FALSE,
                         apiKey |-> <<"*", "*", "*", "*", "-", "k", "e", "y">>]


Mask == <<"*", "*", "*", "*">>

\* C21: for a set credential, getApiKeyInfo() and the apiKey field of
\* getConfig() are the mask **** followed by the last four characters of
\* the credential (****-key for test-api-key, ****1234 for sk-1234); the
\* snapshot getConfig() returns holds the unmasked credential in no field.
C21_CredentialIsMasked ==
    cfg.apiKey # "" =>
      LET key  == Chars(cfg.apiKey)
          snap == getConfig(cfg)
      IN  /\ getApiKeyInfo(cfg) = Mask \o SubSeq(key, Len(key) - Min(4, Len(key)) + 1, Len(key))
          /\ snap.apiKey = getApiKeyInfo(cfg)
          /\ cfg.apiKey = "test-api-key" => snap.apiKey = Mask \o <<"-", "k", "e", "y">>
          /\ cfg.apiKey = "sk-1234" => snap.apiKey = Mask \o <<"1", "2", "3", "4">>
          /\ snap.apiKey # key
          /\ snap.baseUrl # cfg.apiKey
          /\ DOMAIN snap = {"baseUrl", "timeout", "retries", "retryDelay", "debug", "apiKey"}

C21_Witness ==
    /\ lastUpdate.apiKey = Given(Str("sk-1234"))
    /\ cfg.apiKey = "sk-1234"
    /\ getConfig(cfg).apiKey = <<"*", "*", "*", "*", "1", "2", "3", "4">>
    /\ pc = "done"


\* The request of the exchange a step opens.
Opens == Len(requests') = Len(requests) + 1
Opened == requests'[Len(requests')]

\* C22: every POST request of chat, completion, responses, stream and
\* streamCompletion, on every attempt, carries the client's credential both
\* in its JSON body as api_key and in its Authorization: Bearer header.
C22_PostCarriesCredential ==
    [][Opens /\ args.method \in PostMethods =>
         /\ Opened.method = "POST"
         /\ Opened.body.present
         /\ Opened.body.api_key = cfg'.apiKey
         /\ Opened.authorization = cfg'.apiKey]_vars


\* The caller set the option: it passed a value other than undefined.
CallerSet(o) == o.set /\ o.v.t # "undefined"

\* Field f of every request body sent is there exactly when the caller set
\* option o, with the caller's value.
CarriesOption(f, o) ==
    \A i \in DOMAIN requests :
      LET sent == requests[i].body[f]
      IN  /\ sent.set <=> CallerSet(o)
          /\ sent.set => sent.v = o.v
          /\ o = Given(Num(0)) => sent = Given(Num(0))

\* C23: for chat, completion, stream and streamCompletion the request body
\* of every attempt contains temperature (max_tokens) if and only if the
\* caller set temperature (maxTokens) in the options, with the caller's
\* value: 0 is included as 0, and an unset option is absent.
C23_OptionsIncludedWhenSet ==
    args.method \in {"chat", "completion", "stream", "streamCompletion"} =>
      /\ CarriesOption("temperature", args.temperature)
      /\ CarriesOption("max_tokens", args.maxTokens)

C23_Witness ==
    /\ args.method = "chat"
    /\ args.temperature = Given(Num(0))
    /\ args.maxTokens = Unset
    /\ Len(requests) = 2
    /\ requests[2].body.temperature = Given(Num(0))
    /\ ~requests[2].body.max_tokens.set
    /\ pc = "done"


\* C24: the credential of a client is non-empty in every reachable state.
\* Construction with an empty or missing key fails with "API key is
\* required" and produces no client, on which nothing can then run; and no
\* updateConfig, updateConfig({apiKey: ""}) included, makes the credential
\* of a client empty.
C24_CredentialNonEmpty ==
    /\ cfg.apiKey = "" <=> pc = "unbuilt"
    /\ pc = "unbuilt" => result = Thrown("API key is required") /\ ~ENABLED Next

C24_Witness ==
    /\ lastUpdate.apiKey = Given(Str(""))
    /\ cfg.apiKey = "test-api-key"
    /\ pc = "done"
    /\ Len(requests) > 0


\* C25: the numeric settings timeout, retries and retryDelay of a client
\* are non-negative in every reachable state: neither construction nor
\* updateConfig leaves a negative value.
C25_NumericSettingsNonNegative ==
    pc # "unbuilt" => cfg.timeout >= 0 /\ cfg.retries >= 0 /\ cfg.retryDelay >= 0


\* The requests went to the base URL, with the credential, and the
\* attempts stayed within and used up the retry limit of configuration c.
AttemptsUse(c) ==
    /\ \A i \in DOMAIN requests :
         requests[i].baseUrl = c.baseUrl /\ requests[i].authorization = c.apiKey
    /\ Exchanges <= c.retries + 1
    /\ result.kind = "envelope" => Exchanges = c.retries + 1

\* C26: a non-streaming call during which updateConfig runs is unaffected
\* except for its backoff timing: its attempts use the retry limit, the
\* base URL and the credential in effect when the call started.
C26_CallUsesEntryConfig ==
    NonStreamCall /\ Started /\ entryCfg.retries >= 0 => AttemptsUse(entryCfg)

C26_UntouchedCallUsesEntryConfig ==
    NonStreamCall /\ Started /\ entryCfg.retries >= 0 /\ ~cfgTouched => AttemptsUse(entryCfg)


ToggleDebug(c) == [c EXCEPT !.debug = ~c.debug]

\* C27: the debug flag never alters control flow.  Every step a call
\* takes - an exchange opened, a wait started, a chunk yielded, the result
\* or terminal outcome - is the step the same call takes from the same
\* state when its reads of the configuration see the debug flag toggled;
\* so a behaviour with debug enabled is, flag aside, a behaviour with debug
\* disabled, and conversely.
C27_DebugAltersNothing == [][NextOf(ToggleDebug(cfg))]_vars

C27_Witness ==
    /\ cfg.debug /\ entryCfg.debug
    /\ NonStreamCall
    /\ NumWaits = 1 /\ Exchanges = 2
    /\ pc = "done"
    /\ result.kind = "envelope"


\* A step that does nothing but settle the call with result r.
OnlySettles(r) ==
    /\ pc' = "done"
    /\ result' = r
    /\ UNCHANGED <<cfg, args, requestBody, attempt, lastError, reqTimeout, timers,
                   requests, trace, respStatus, respBody, updates, cfgTouched, lastUpdate>>
    /\ UNCHANGED streamVars

\* C28: the validator of chat and stream fails if and only if the model id
\* is empty or no text, or the message list is empty or no list, or some
\* message at any position has a role outside system, user, assistant, or
\* some message has empty or non-text content; it accepts every other
\* input, and it has no side effect: a rejected call changes nothing but
\* its outcome, an accepted call goes on without a validation error.
C28_ValidatorContract ==
    /\ [](args.method \in {"chat", "stream"} =>
            (validateInputs(args.model, args.messages) # ""
               <=> Malformed(args.model, args.messages)))
    /\ [][pc = "idle" /\ pc' # "idle" /\ args.method \in {"chat", "stream"} =>
            IF Malformed(args.model, args.messages)
              THEN /\ OnlySettles(Thrown(validateInputs(args.model, args.messages)))
                   /\ result'.message \in ValidationMessages
              ELSE ~(result'.kind = "throw" /\ result'.message \in ValidationMessages)]_vars

C28_Witness ==
    /\ args.method = "chat"
    /\ args.messages.items = <<Msg(Str("system"), Str("be brief")),
                               Msg(Str("assistant"), Str("ok"))>>
    /\ ~Malformed(args.model, args.messages)
    /\ Exchanges = 1
    /\ result.kind = "body"


\* C29: the configuration is changed by updateConfig only.  A step that
\* changes a field of the client is an updateConfig call and leaves what
\* updateConfig computes from its argument; no step of chat, completion,
\* responses (which testConnection and healthCheck run), stream,
\* streamCompletion, getModels, getModel or getModelsByProvider changes a
\* field; getConfig and getApiKeyInfo are reads.
C29_OnlyUpdateConfigWrites ==
    [][cfg' # cfg =>
         /\ updates' = updates - 1
         /\ cfg' = updateConfig(cfg, lastUpdate')
         /\ UNCHANGED <<pc, result, requests, trace, timers>>]_vars

C29_Witness ==
    /\ NonStreamCall
    /\ updates = MaxUpdates /\ MaxUpdates > 0
    /\ Exchanges = 4 /\ NumWaits = 3
    /\ pc = "done"
    /\ cfg = entryCfg


\* The attempt in flight of a non-streaming call fails in this step.
AttemptFails ==
    /\ NonStreamCall
    /\ pc \in {"fetching", "reading"}
    /\ pc' = "waiting" \/ attempt' = attempt + 1

\* Its abort timer fires in this step.
AbortsNow == timers[Len(timers)] = "pending" /\ timers'[Len(timers)] = "fired"

\* C30: when a non-streaming call exhausts its retries, the envelope is
\* built from the failure of the last attempt only.  Every failed attempt
\* replaces the recorded failure by its own, and the envelope returned is
\* the one of the recorded failure: code network_error when the final
\* attempt failed with a network error, code timeout when it timed out,
\* whatever the earlier failures were.
C30_EnvelopeFromLastAttempt ==
    /\ [][AttemptFails =>
            lastError' \in (IF pc = "reading" THEN BodyErrors
                            ELSE IF AbortsNow THEN {AbortErr} ELSE FetchErrors)]_vars
    /\ [](NonStreamCall /\ pc = "done" /\ result.kind = "envelope" =>
            /\ result = createErrorResponse(lastError)
            /\ result.code = (IF lastError = AbortErr THEN "timeout" ELSE "network_error"))

C30_Witness ==
    /\ NonStreamCall
    /\ pc = "done"
    /\ args.silent
    /\ Exchanges = 2
    /\ timers[1] = "fired"
    /\ lastError = NetErr
    /\ result = Envelope("fetch failed", "network_error", "client_error")


\* The response of the canned request carries an error: it is a body with
\* an error field, or no body was obtained and the envelope stands for it.
DiagnosticCall == args.method \in DiagnosticMethods
CarriesError == respBody.wire # "json" \/ respBody.value.hasError

\* C33: testConnection and healthCheck never throw, and healthCheck
\* reports unhealthy exactly when the response of its canned request
\* carries an error, healthy otherwise.
C33_DiagnosticsNeverThrow ==
    (DiagnosticCall /\ pc = "done") =>
        /\ result.kind # "throw"
        /\ args.method = "healthCheck" =>
              /\ result.kind = "health"
              /\ result.code = IF CarriesError THEN "unhealthy" ELSE "healthy"

\* The same for every server that does not answer with the JSON text null.
C33_DiagnosticsOnObjects ==
    (DiagnosticCall /\ pc = "done" /\ respBody.value # JsonNull) =>
        /\ result.kind # "throw"
        /\ args.method = "healthCheck" =>
              /\ result.kind = "health"
              /\ result.code = IF CarriesError THEN "unhealthy" ELSE "healthy"


\* The exchange the i-th timer was armed for is in flight.
InFlight(i) == i = Len(timers) /\ pc \in {"fetching", "s_fetching"}

UnderWay == NonStreamCall /\ pc \in {"fetching", "reading", "waiting"} /\ ~cfgTouched

\* C32: every non-streaming call that passed validation returns, with the
\* server's body or with the envelope, when timers fire and the
\* configuration is not changed during the call: no call waits forever,
\* whatever the server does with the body.
C32_CallReturns ==
    /\ [](NonStreamCall /\ pc = "done" /\ Validated
            => result.kind \in {"body", "envelope"})
    /\ [](UnderWay => <>(pc = "done" \/ cfgTouched))

\* The same for every server that completes the bodies it starts.
C32_ReturnsUnlessStalled ==
    [](UnderWay => <>(pc = "done" \/ cfgTouched \/ respBody.wire = "stalled"))


\* C34: in every POST request issued, on every attempt and whenever
\* updateConfig({apiKey}) ran, the credential of the Authorization header
\* equals the api_key of the body of that same request.
C34_HeaderMatchesBody ==
    \A i \in 1 .. Len(requests) :
        requests[i].method = "POST"
        => requests[i].authorization = requests[i].body.api_key

\* The same for calls during which the configuration was not updated.
C34_HeaderMatchesBodyUntouched ==
    ~cfgTouched =>
        \A i \in 1 .. Len(requests) :
            requests[i].method = "POST"
            => requests[i].authorization = requests[i].body.api_key


\* C35: every timeout timer an attempt armed is cancelled when the attempt
\* ends, with a response or with a transport failure: once a non-streaming
\* call has returned, or a streaming call has failed to open its exchange,
\* none of the timers it armed is pending.
C35_NoTimerPendingAfterReturn ==
    (pc = "done" /\ (NonStreamCall \/ (StreamingCall /\ reader = "none")))
    => \A i \in 1 .. Len(timers) : timers[i] # "pending"

\* The same for the attempts that obtained a response: the timer of an
\* exchange whose response was read is not pending.
C35_TimerClearedOnResponse ==
    (pc \in {"reading", "s_json", "s_read"} \/ (pc = "done" /\ result.kind = "body"))
    => timers[Len(timers)] # "pending"


\* The chunks the for-of loop yields from the lines ls, and whether it met
\* the sentinel.
RECURSIVE LoopChunks(_)
LoopChunks(ls) ==
    LET r == ProcessLines(ls)
    IN  CASE r.kind = "yield" ->
               [chunks |-> <<r.value>> \o LoopChunks(r.rest).chunks,
                returned |-> LoopChunks(r.rest).returned]
          [] r.kind = "return" -> [chunks |-> <<>>, returned |-> TRUE]
          [] OTHER -> [chunks |-> <<>>, returned |-> FALSE]

\* The chunks yielded when the transport hands the whole body over in one
\* read: one decode and one split, the loop over the lines, and the look
\* at what is left after the last line feed.
OneReadChunks ==
    LET parts == Split(Decode(<<>>, body).text)
        loop  == LoopChunks(SubSeq(parts, 1, Len(parts) - 1))
        last  == parts[Len(parts)]
        data  == Slice(last, 6)
    IN  IF loop.returned THEN loop.chunks
        ELSE IF StartsWith(last, Marker) /\ data # Sentinel /\ JSONparse(data).ok
               THEN Append(loop.chunks, JSONparse(data).value)
               ELSE loop.chunks

\* C36: what a streaming call yields depends on the body alone and not on
\* how the transport splits it into reads: under every splitting, splits
\* inside the marker, inside a payload, inside a character and inside the
\* sentinel included, the chunks yielded so far are the first of those that
\* one read of the whole body yields, and a sequence that has ended has
\* yielded exactly those.
C36_ChunksIndependentOfReads ==
    StreamingCall
    => /\ IsPrefix(yielded, OneReadChunks)
       /\ result = Ended => yielded = OneReadChunks
       /\ (pc = "done" /\ reader = "released") => result \in {Ended, Dropped, StreamFailure(NetErr.message)}

\* The event stream of the protocol, of which a read has ended inside the
\* marker of the second event after the first event was yielded.
C36_Witness ==
    /\ StreamingCall
    /\ body = Marker \o <<"1", LF, LF>> \o Marker \o Sentinel \o <<LF, LF>>
    /\ yielded = <<Num(1)>>
    /\ pc = "s_read"
    /\ buffer = <<"d", "a">>


\* p occurs in q as a substring.
IsInfix(p, q) ==
    \E i \in 0 .. Len(q) - Len(p) : SubSeq(q, i + 1, i + Len(p)) = p

\* C37: for every non-empty credential the masked string, as
\* getApiKeyInfo() returns it and as getConfig().apiKey holds it, hides at
\* least one character: the complete credential is no substring of it.
C37_MaskHidesACharacter ==
    cfg.apiKey # "" =>
        /\ ~IsInfix(Chars(cfg.apiKey), getApiKeyInfo(cfg))
        /\ ~IsInfix(Chars(cfg.apiKey), getConfig(cfg).apiKey)

\* The same for credentials of more than four characters.
C37_MaskHidesLongCredentials ==
    Len(Chars(cfg.apiKey)) > 4 =>
        /\ ~IsInfix(Chars(cfg.apiKey), getApiKeyInfo(cfg))
        /\ ~IsInfix(Chars(cfg.apiKey), getConfig(cfg).apiKey)


\* The body chat builds for the single message { role: "user", content:
\* input } and the given max_tokens field.
ResponsesBody(maxTokensField) ==
    [present |-> TRUE, model |-> args.model,
     messages |-> ArrayOf(<<Msg(Str("user"), args.prompt)>>), prompt |-> Unset,
     api_key |-> entryCfg.apiKey, stream |-> FALSE, temperature |-> Unset,
     max_tokens |-> maxTokensField, timeout |-> Unset]

BadInput == ~Truthy(args.prompt) \/ args.prompt.t # "string"

\* C38: responses(model, input) fails before any network call when input
\* is empty or not text; otherwise every request it issues is the request
\* of chat with the single message { role: "user", content: input }, whose
\* body holds max_tokens only when the caller passed maxTokens, with the
\* caller's value.
C38_ResponsesSendsWhatCallerSet ==
    (args.method = "responses" /\ pc # "idle") =>
        IF BadInput
          THEN /\ result = Thrown("Input must be a non-empty string")
               /\ requests = <<>>
          ELSE \A i \in 1 .. Len(requests) :
                 /\ requests[i].method = "POST"
                 /\ requests[i].body =
                      ResponsesBody(IF CallerSet(args.maxTokens)
                                      THEN Given(args.maxTokens.v) ELSE Unset)

\* The same with max_tokens 200 when the caller passed no maxTokens.
C38_ResponsesSendsDefault ==
    (args.method = "responses" /\ pc # "idle") =>
        IF BadInput
          THEN /\ result = Thrown("Input must be a non-empty string")
               /\ requests = <<>>
          ELSE \A i \in 1 .. Len(requests) :
                 /\ requests[i].method = "POST"
                 /\ requests[i].body =
                      ResponsesBody(IF CallerSet(args.maxTokens)
                                      THEN Given(args.maxTokens.v)
                                      ELSE Given(Num(DefaultMaxTokens)))


\* A method of the wrapper was called.
WrapperCalled == args.method \in WrapperMethods /\ pc # "idle"

\* C39: chat, completion, response, getModels and getModel of the minimal
\* wrapper issue exactly one exchange per call, never retry and never
\* throw: a body that parses is returned as it is whatever the status, and
\* every failure, a connection error or a body that does not parse, is
\* returned as the envelope with code network_error and type client_error.
C39_WrapperOneExchange ==
    WrapperCalled =>
        /\ Len(requests) = 1
        /\ requests[1].method = (IF args.method \in {"wrapper.getModels", "wrapper.getModel"}
                                   THEN "GET" ELSE "POST")
        /\ timers = <<>> /\ trace = <<>> /\ attempt = 0
        /\ result.kind # "throw"
        /\ pc = "done" =>
              IF respBody.wire = "json"
                THEN result = Returned(respBody.value)
                ELSE /\ result.kind = "envelope"
                     /\ result.code = "network_error"
                     /\ result.type = "client_error"
                     /\ result.message = "Network error occurred"

\* A chat of the wrapper answered with status 500 and a body that parses
\* has returned that body.
C39_Witness ==
    /\ args.method = "wrapper.chat"
    /\ pc = "done"
    /\ respStatus = 500
    /\ respBody = Wire("json", [hasError |-> TRUE, text |-> "bad request"])
    /\ result = Returned([hasError |-> TRUE, text |-> "bad request"])
    /\ Len(requests) = 1

=============================================================================
